---- MODULE Spec2Model ----
(***************************************************************************)
(* A model of librarian-bot's retrieval / aggregation / summarization      *)
(* pipeline: the LLM client (rate limiter, retry loop, response parser,    *)
(* link validation), the Slack history pagination loop, the topic filter,  *)
(* the thread and permalink fan-outs, the thread grouping and ranking of   *)
(* the search command and the holistic summary of the context and report   *)
(* commands.                                                               *)
(*                                                                         *)
(* Strings that the code inspects with regular expressions are modelled    *)
(* as sequences of lexical tokens (labels, words, URLs, numbers, line      *)
(* breaks, dashed rules); tokens on one line are separated by a single     *)
(* space, a dashed rule touches its neighbours.  Strings that the code     *)
(* inspects character by character (the topic filter) are sequences of     *)
(* characters.  Relevance scores are kept in tenths (0.9 is 9, 0.5 is 5).  *)
(* Times are in abstract ticks.                                            *)
(***************************************************************************)
EXTENDS Integers, Sequences, FiniteSets, TLC

VARIABLES
  \* ---- LLMClient instance (src/src/llmClient.js constructor) ----
  requestCount,         \* this.requestCount
  lastRequestTime,      \* this.lastRequestTime
  intervals,            \* setInterval timers of the client that are alive
  requestResetTimeout,  \* this.requestResetTimeout: TRUE when the interval exists
  nextReset,            \* tick at which the interval fires next
  now,                  \* Date.now()
  \* ---- concurrent callers of enforceRateLimit ----
  callerPc,             \* position of each caller inside enforceRateLimit
  wakeAt,               \* tick at which a sleeping caller's timeout fires
  recordedInWindow,     \* calls recorded since the last reset of the counter
  \* ---- one generateThreadSummaries call ----
  debugMode,            \* config.debugMode
  maxRetries,           \* this.maxRetries
  retryDelay,           \* this.retryDelay
  threads,              \* the threads argument
  pc,                   \* position of the call
  retryCount,           \* callLLM's retryCount
  attempts,             \* upstream requests issued by this call
  delays,               \* the backoff delays slept, in order
  allRetryable,         \* every upstream attempt so far failed with a retryable error
  lastError,            \* the error raised by callLLM / enforceRateLimit, or "none"
  response,             \* the value callLLM returned
  result,               \* the summaries generateThreadSummaries returned
  threw,                \* an exception escaped generateThreadSummaries
  path,                 \* which branch produced the result
  \* ---- SlackApiClient.searchMessages pagination ----
  history,              \* number of messages the channel holds
  maxMessages,          \* options.maxMessages
  allMessages,          \* number of raw messages accumulated
  cursor,               \* next cursor (0: none)
  hasMore,              \* loop flag
  pages,                \* history requests issued
  searchError,          \* the error searchMessages threw, or "none"
  spc,                  \* position of searchMessages
  \* ---- handleSearchCommand grouping and ranking ----
  messages,             \* the messages searchMessages returned, in fetch order
  intTs,                \* TRUE when timestamps are integer-valued numbers
  threadKeys,           \* keys of the threads object, in insertion order
  threadMsgs,           \* threads[key].messages as positions in messages
  threadArray,          \* the ranked keys
  maxThreads,           \* config.search.maxThreads
  gpc,                  \* position of the grouping code
  \* ---- topic filter ----
  topic,                \* the topic string
  text,                 \* a message's text
  passes,               \* the filter's verdict
  fpc,                  \* position of the filter
  \* ---- the holistic summary of the context and report commands ----
  command,              \* "context" or "report"
  overallSummary,       \* overallSummary / reportContent
  delivered,            \* the message the command posted: "result", "error" or "none"
  cpc,                   \* position of the command
  \* ---- searchMessages after paging: filter, thread and permalink fan-outs ----
  includeThreads,       \* options.includeThreads
  matched,              \* messages that passed the topic filter
  threaded,             \* those of them that carry a thread_ts
  threadMatched,        \* thread replies that passed the topic filter
  repliesInFlight,      \* conversations.replies requests not yet settled
  linksInFlight,        \* chat.getPermalink requests not yet settled
  replies,              \* conversations.replies requests issued
  links,                \* chat.getPermalink requests issued
  topics,               \* what extractTopics returned
  allowAllPublicChannels,  \* config.allowAllPublicChannels
  allowPrivateChannels,  \* config.allowPrivateChannels
  channelListed,         \* config.allowedChannels.includes(channel_id)
  channelPrivate,        \* the channel of the command is private
  commandType,           \* what the command's text selects
  hasTopic,              \* the arguments after the command type form a topic
  hpc,                   \* position of handleSlashCommand and its handler
  posts,                 \* messages handed to chat.postEphemeral / postMessage
  infoRequests,          \* conversations.info requests issued
  historyRequests,       \* conversations.history requests issued
  summaryCalls,          \* calls of generateThreadSummaries / summarizeContext
  found,                 \* messages.length after searchMessages, -1 before
  escaped,               \* where an exception left the code uncaught
  logged,                 \* the final catch of the search handler logged
  channel,               \* the messages of the channel searchMessages reads
  formattedMessages,     \* the timestamps of the list searchMessages builds
  xpc,                    \* position of searchMessages' filter and expansion
  reportContent,         \* the text handed to chunkResponse
  reportChunks,          \* the chunks chunkResponse returned
  kpc                    \* position of the chunking

limiterVars == <<requestCount, lastRequestTime, requestResetTimeout, nextReset, now,
                 intervals>>
callerVars  == <<callerPc, wakeAt, recordedInWindow>>
llmVars     == <<debugMode, maxRetries, retryDelay, threads, pc, retryCount, attempts,
                 delays, allRetryable, lastError, response, result, threw, path>>
searchVars  == <<history, maxMessages, allMessages, cursor, hasMore, pages, searchError,
                 spc>>
groupVars   == <<messages, intTs, threadKeys, threadMsgs, threadArray, maxThreads, gpc>>
filterVars  == <<topic, text, passes, fpc>>
cmdVars     == <<command, overallSummary, delivered, cpc>>
fanVars     == <<includeThreads, matched, threaded, threadMatched, repliesInFlight,
                 linksInFlight, replies, links>>
topicVars   == <<topics>>
slashVars   == <<allowAllPublicChannels, allowPrivateChannels, channelListed,
                 channelPrivate, commandType, hasTopic, hpc, posts, infoRequests,
                 historyRequests, summaryCalls, found, escaped, logged>>
expandVars  == <<channel, formattedMessages, xpc>>
chunkVars   == <<reportContent, reportChunks, kpc>>
vars == <<limiterVars, callerVars, llmVars, searchVars, groupVars, filterVars,
          cmdVars,
          fanVars,
          topicVars,
          slashVars,
          expandVars,
          chunkVars>>

(***************************************************************************)
(* Bounds of the model.                                                    *)
(***************************************************************************)
MaxTopicsOut == 4       \* comma-separated terms in an upstream topic answer
MaxPagesCmd == 2        \* history pages one command may request
MaxChannelTs == 3       \* timestamps of the channel read by the expansion
MaxReportLen == 5       \* characters of a text handed to chunkResponse
maxChunkLength == 3     \* config.llm.maxChunkLength, scaled down
MaxFound == 2           \* messages a command's search may return
MaxTextLen == 3        \* tokens in a free-form raw response
MaxThreadsIn == 2      \* threads handed to the parser / summarizer
MaxRetriesBound == 3   \* maxRetries ranges over 1..MaxRetriesBound
MaxBaseDelay == 2      \* retryDelay ranges over 1..MaxBaseDelay
\* config.rateLimits and the 60000 ms interval of enforceRateLimit, scaled to ticks
maxRequestsPerMinute == 2
messageDelay == 2
ResetInterval == 4
NumCallers == 2        \* concurrent callers of the shared client
MaxTime == 8           \* the clock stops here
PageLimit == 3         \* `limit: 100` of conversations.history, scaled
MaxHistory == 7        \* messages a channel holds
MaxMaxMessages == 5    \* options.maxMessages ranges over 1..MaxMaxMessages
MaxTs == 3             \* timestamps range over 1..MaxTs
MaxGroupMsgs == 3      \* messages handed to the grouping
MaxThreadsCfg == 3     \* config.search.maxThreads ranges over 1..MaxThreadsCfg
MaxTopicLen == 3       \* characters of a topic
MaxMsgTextLen == 3     \* characters of a message text
MaxMatched == 3         \* messages that pass the topic filter
WorkerCap == 2          \* concurrent requests a bounded fan-out would allow
maxTokens == 4                \* this.maxTokens (config.llm.maxTokens), in prompt units

Min(S) == CHOOSE x \in S : \A y \in S : x <= y
Max(S) == CHOOSE x \in S : \A y \in S : x >= y

RECURSIVE Pow2(_)
Pow2(n) == IF n = 0 THEN 1 ELSE 2 * Pow2(n - 1)

SeqsUpTo(S, n) == UNION {[1..k -> S] : k \in 0..n}

(***************************************************************************)
(* Tokens of a raw LLM response.                                           *)
(***************************************************************************)
NL == "NL"                               \* one line break
SummaryLabels == {"Summary:"}
LinkLabels == {"Link:", "URL:", "Permalink:"}
ScoreLabels == {"Score:", "Relevance:"}
NumberTokens == {"0.8", "5", "."}        \* what [\d.]+ matches
GenericLink == "https://slack.com"
ThreadLinks == <<"https://slack.com/thread-0", "https://slack.com/thread-1",
                 "https://slack.com/thread-2", "https://slack.com/thread-3",
                 "https://slack.com/thread-4">>
OwnLinks == <<"https://team.slack.com/p1", "https://team.slack.com/p2",
              "https://team.slack.com/p3", "https://team.slack.com/p4",
              "https://team.slack.com/p5">>
Range(s) == {s[i] : i \in DOMAIN s}
HttpTokens == {"https://x", "http://y", GenericLink} \cup Range(ThreadLinks) \cup Range(OwnLinks)
BracketTokens == {"[permalink]"}
NumStr == <<"1", "2", "3", "4", "5", "6", "7", "8", "9", "10", "11", "12">>

IsWs(tok) == tok = NL

RECURSIVE TrimLeft(_)
TrimLeft(s) == IF s # <<>> /\ IsWs(Head(s)) THEN TrimLeft(Tail(s)) ELSE s
RECURSIVE TrimRight(_)
TrimRight(s) ==
  IF s # <<>> /\ IsWs(s[Len(s)]) THEN TrimRight(SubSeq(s, 1, Len(s) - 1)) ELSE s
\* String.prototype.trim
Trim(s) == TrimRight(TrimLeft(s))

\* first position >= from holding a token of S; 0 when there is none
FirstIdx(t, from, S) ==
  LET c == {x \in from..Len(t) : t[x] \in S}
  IN IF c = {} THEN 0 ELSE Min(c)

\* the position reached from `from` after \s* has consumed the line breaks
SkipWs(t, from) ==
  LET c == {x \in from..Len(t) : ~IsWs(t[x])}
  IN IF c = {} THEN Len(t) + 1 ELSE Min(c)

\* parseFloat of what [\d.]+ matched, in tenths
ParseFloat(tok) ==
  CASE tok = "0.8" -> [nan |-> FALSE, v |-> 8]
    [] tok = "5"   -> [nan |-> FALSE, v |-> 50]
    [] OTHER       -> [nan |-> TRUE, v |-> 0]

CountStr(n) == IF n = 0 THEN "0" ELSE NumStr[n]

(***************************************************************************)
(* Threads handed to the LLM client: the message count and the permalink   *)
(* (the empty sequence stands for null, undefined and "").                 *)
(***************************************************************************)
OrElse(p, q) == IF p # <<>> THEN p ELSE q      \* p || q on strings

\* threads[0]?.permalink || "https://slack.com"
FirstThreadLink(ths) ==
  IF ths = <<>> THEN <<GenericLink>> ELSE OrElse(ths[1].permalink, <<GenericLink>>)

(***************************************************************************)
(* LLMClient.parseResponse, first strategy: the structured-block pattern   *)
(*   /Summary:\s*(.*?)\s*(?:Link|URL|Permalink):\s*(.*?)\s*                *)
(*    (?:Score|Relevance):\s*([\d.]+)/gs                                   *)
(* With the s flag the lazy groups run across line breaks: a match starts  *)
(* at the first Summary label, its first group ends at the first link      *)
(* label after it, its second group at the first score label after that    *)
(* which is followed by a number.                                          *)
(***************************************************************************)
ScoreLabelAt(t, x) ==
  /\ t[x] \in ScoreLabels
  /\ SkipWs(t, x + 1) <= Len(t)
  /\ t[SkipWs(t, x + 1)] \in NumberTokens

BlockMatch(t, pos) ==
  LET i == FirstIdx(t, pos, SummaryLabels)
      j == IF i = 0 THEN 0 ELSE FirstIdx(t, i + 1, LinkLabels)
      ks == IF j = 0 THEN {} ELSE {x \in (j + 1)..Len(t) : ScoreLabelAt(t, x)}
  IN IF ks = {}
       THEN [found |-> FALSE, i |-> 0, j |-> 0, k |-> 0, m |-> 0]
       ELSE [found |-> TRUE, i |-> i, j |-> j, k |-> Min(ks),
             m |-> SkipWs(t, Min(ks) + 1)]

RECURSIVE StructuredSummaries(_, _, _)
StructuredSummaries(t, pos, ths) ==
  LET b == BlockMatch(t, pos) IN
  IF ~b.found THEN <<>>
  ELSE LET summary == Trim(SubSeq(t, b.i + 1, b.j - 1))
           permalink == Trim(SubSeq(t, b.j + 1, b.k - 1))
           score == ParseFloat(t[b.m])
           one == IF summary # <<>>
                    THEN <<[summary |-> summary,
                            permalink |-> OrElse(permalink, FirstThreadLink(ths)),
                            relevanceScore |-> IF score.nan THEN 5 ELSE score.v]>>
                    ELSE <<>>
       IN one \o StructuredSummaries(t, b.m + 1, ths)

(***************************************************************************)
(* Second strategy: split on /\n\n+|\r\n\r\n+|---+/ and apply the three    *)
(* single-line patterns to each block.                                     *)
(***************************************************************************)
RECURSIVE SplitBlocks(_, _, _)
SplitBlocks(t, x, cur) ==
  IF x > Len(t) THEN <<cur>>
  ELSE IF t[x] = "---" THEN <<cur>> \o SplitBlocks(t, x + 1, <<>>)
  ELSE IF t[x] = NL /\ x < Len(t) /\ t[x + 1] = NL
         THEN <<cur>> \o SplitBlocks(t, SkipWs(t, x), <<>>)
  ELSE SplitBlocks(t, x + 1, Append(cur, t[x]))

\* what (.*?)(?:\n|$) captures from position x: the rest of the line
LineFrom(b, x) ==
  LET e == FirstIdx(b, x, {NL})
  IN IF x > Len(b) THEN <<>>
     ELSE SubSeq(b, x, (IF e = 0 THEN Len(b) ELSE e - 1))

\* the capture of /Label:\s*(.*?)(?:\n|$)/ in block b; <<>> when no match or empty
LabelCapture(b, labels) ==
  LET i == FirstIdx(b, 1, labels)
  IN IF i = 0 THEN <<>> ELSE LineFrom(b, SkipWs(b, i + 1))

\* /(?:Score|Relevance):\s*([\d.]+)(?:\n|$)/ : the number must end its line
LooseScore(b) ==
  LET ks == {x \in 1..Len(b) :
               /\ ScoreLabelAt(b, x)
               /\ LET m == SkipWs(b, x + 1) IN m = Len(b) \/ b[m + 1] = NL}
  IN IF ks = {} THEN 5
     ELSE LET f == ParseFloat(b[SkipWs(b, Min(ks) + 1)])
          IN IF f.nan THEN 5 ELSE f.v

LooseBlock(b, ths) ==
  LET summary == LabelCapture(b, SummaryLabels)
      link == LabelCapture(b, LinkLabels)
  IN IF summary = <<>> THEN <<>>
     ELSE <<[summary |-> Trim(summary),
             permalink |-> IF link # <<>> THEN Trim(link) ELSE FirstThreadLink(ths),
             relevanceScore |-> LooseScore(b)]>>

RECURSIVE LooseSummaries(_, _)
LooseSummaries(blocks, ths) ==
  IF blocks = <<>> THEN <<>>
  ELSE LooseBlock(Head(blocks), ths) \o LooseSummaries(Tail(blocks), ths)

\* threads.slice(0, 3)
FirstThree(ths) == SubSeq(ths, 1, Min({3, Len(ths)}))

\* threads.slice(3) in place of threads.slice(0, 3)
ParserFallbackAfterThree(ths) ==
  [x \in 1..Max({0, Len(ths) - 3}) |->
     [summary |-> <<"Thread", "with", CountStr(ths[x + 3].messages), "messages">>,
      permalink |-> OrElse(ths[x + 3].permalink, <<GenericLink>>),
      relevanceScore |-> 9 - 2 * (x - 1)]]

\* the fallback summaries of parseResponse
ParserFallback(ths) ==
  [x \in 1..Len(FirstThree(ths)) |->
     [summary |-> <<"Thread", "with", CountStr(ths[x].messages), "messages">>,
      permalink |-> OrElse(ths[x].permalink, <<GenericLink>>),
      relevanceScore |-> 9 - 2 * (x - 1)]]

\* A response is [defined, tokens]; an undefined response reads "undefined" to
\* RegExp.exec and makes response.split throw, which the try block catches.
parseResponse(resp, ths) ==
  LET t == IF resp.defined THEN resp.tokens ELSE <<"undefined">>
      structured == StructuredSummaries(t, 1, ths)
      summaries == IF structured # <<>> THEN structured
                   ELSE IF resp.defined
                          THEN LooseSummaries(SplitBlocks(t, 1, <<>>), ths)
                          ELSE <<>>
  IN IF summaries = <<>> THEN ParserFallback(ths) ELSE summaries

(***************************************************************************)
(* Link validation of generateThreadSummaries.                             *)
(***************************************************************************)
IsValidUrl(p) ==
  /\ p # <<>>
  /\ p[1] \in HttpTokens
  /\ \A x \in DOMAIN p : p[x] \notin BracketTokens

ReplaceWithFirstThread(ths, x) == OrElse(ths[1].permalink, <<ThreadLinks[1]>>)

\* threads[threadIndex].permalink || `https://slack.com/thread-${threadIndex}`
ReplacementLink(ths, x) ==
  LET ti == Min({x, Len(ths)})
  IN OrElse(ths[ti].permalink, <<ThreadLinks[ti]>>)

\* summaries.map(...): reading threads[-1].permalink throws when threads is empty
ValidateLinks(sums, ths) ==
  IF ths = <<>> /\ \E x \in DOMAIN sums : ~IsValidUrl(sums[x].permalink)
    THEN [threw |-> TRUE, value |-> <<>>]
    ELSE [threw |-> FALSE,
          value |-> [x \in DOMAIN sums |->
                       IF IsValidUrl(sums[x].permalink) THEN sums[x]
                       ELSE [sums[x] EXCEPT !.permalink = ReplacementLink(ths, x)]]]

Topic == "topic"

\* the debug branch of generateThreadSummaries
DebugSummaries(ths) ==
  [x \in 1..Len(FirstThree(ths)) |->
     [summary |-> <<"[DEBUG]", "sample", "thread", "about", Topic, "with",
                    CountStr(ths[x].messages), "messages.">>,
      permalink |-> OrElse(ths[x].permalink, <<GenericLink>>),
      relevanceScore |-> 9 - 2 * (x - 1)]]

\* the summaries built in the catch block of generateThreadSummaries
ErrorFallback(ths) ==
  [x \in 1..Len(FirstThree(ths)) |->
     [summary |-> <<"Thread", "about", Topic, "with",
                    CountStr(ths[x].messages), "messages.">>,
      permalink |-> OrElse(ths[x].permalink, <<GenericLink>>),
      relevanceScore |-> 9 - 2 * (x - 1)]]

CatchRethrows(ths) == [threw |-> TRUE, value |-> <<>>]

\* the catch block of generateThreadSummaries: it returns, it does not rethrow
Catch(ths) == [threw |-> FALSE, value |-> ErrorFallback(ths)]

KeepLinks(resp, ths) ==
  [threw |-> FALSE, value |-> parseResponse(resp, ths), path |-> "parsed"]

\* generateThreadSummaries from the value callLLM returned to its own return
ParseAndValidate(resp, ths) ==
  LET Outcome(v) ==
        IF v.threw
          THEN [threw |-> Catch(ths).threw, value |-> Catch(ths).value, path |-> "error"]
          ELSE [threw |-> FALSE, value |-> v.value, path |-> "parsed"]
  IN Outcome(ValidateLinks(parseResponse(resp, ths), ths))

(***************************************************************************)
(* LLMClient.handleError.                                                  *)
(***************************************************************************)
StatusErrors == {"429", "500", "503", "401", "400", "502"}
CodeErrors == {"ECONNABORTED", "ETIMEDOUT", "ECONNRESET"}
OtherErrors == {"ENOTFOUND", "TypeError"}
UpstreamErrors == StatusErrors \cup CodeErrors \cup OtherErrors

RetryEveryError(e) == TRUE

\* the disjunction of handleError's shouldRetry
IsRetryable(e) ==
  e \in {"429", "500", "503", "ECONNABORTED", "ETIMEDOUT", "ECONNRESET"}

LinearBackoff(d, rc) == d * (rc + 1)

\* this.retryDelay * Math.pow(2, retryCount)
BackoffDelay(d, rc) == d * Pow2(rc)

\* the Error handleError throws when it does not retry
ErrorMessage(e) ==
  CASE e = "429" -> "Rate limit exceeded. Please try again in a few moments."
    [] e = "401" -> "Invalid API key. Please check your configuration."
    [] e = "400" -> "Invalid request"
    [] e \in StatusErrors -> "API error"
    [] e \in CodeErrors \cup {"ENOTFOUND"} -> "Network error. Please check your connection and try again."
    [] OTHER -> "Error"

handleError(e, rc, R, d) ==
  IF rc < R /\ IsRetryable(e)
    THEN [retry |-> TRUE, delay |-> BackoffDelay(d, rc), thrown |-> "none"]
    ELSE [retry |-> FALSE, delay |-> 0, thrown |-> ErrorMessage(e)]

(***************************************************************************)
(* Inputs: thread lists and raw responses.                                 *)
(***************************************************************************)
ThreadLink(kind, x) ==
  CASE kind = "own" -> <<OwnLinks[x]>>
    [] kind = "placeholder" -> <<"[permalink]">>
    [] OTHER -> <<>>

\* threads arrive ranked, largest first
ThreadLists ==
  UNION {{[x \in 1..k |-> [messages |-> k - x + 1, permalink |-> ThreadLink(pl[x], x)]] :
            pl \in [1..k -> {"none", "own", "placeholder"}]} : k \in 0..MaxThreadsIn}

FourThreads == [x \in 1..4 |-> [messages |-> 5 - x, permalink |-> <<OwnLinks[x]>>]]

ThreadLinksOk(ths) ==
  \A x \in DOMAIN ths : ths[x].permalink = <<>> \/ IsValidUrl(ths[x].permalink)

FreeTokens == {"Summary:", "Link:", "Score:", "word", "https://x", "[permalink]", "0.8", NL}
FreeTexts == SeqsUpTo(FreeTokens, MaxTextLen)

WellFormedBlock == <<"Summary:", "word", NL, "Link:", "https://x", NL, "Score:", "0.8">>
LinkLessBlock == <<"Summary:", "word", NL, "Score:", "0.8">>
PlaceholderBlock == <<"Summary:", "word", NL, "Link:", "[permalink]", NL, "Score:", "5">>
AltLabelBlock == <<"Summary:", "word", "word", NL, "URL:", "http://y", NL, "Relevance:", ".">>
ShiftedBlock == <<"Summary:", NL, "Link:", "https://x", NL, "Score:", "0.8">>
BareSummaryBlock == <<"Summary:">>
ProseBlock == <<"word", "word">>
Blocks == {WellFormedBlock, LinkLessBlock, PlaceholderBlock, AltLabelBlock,
           ShiftedBlock, BareSummaryBlock, ProseBlock}
Separators == {<<NL, NL>>, <<NL, "---", NL>>}
ComposedTexts ==
  Blocks \cup {a \o sep \o b : a \in Blocks, b \in Blocks, sep \in Separators}

Undefined == [defined |-> FALSE, tokens |-> <<>>]
AsResponse(T) == {[defined |-> TRUE, tokens |-> t] : t \in T} \cup {Undefined}
ParseInputs == AsResponse(FreeTexts \cup ComposedTexts)
LLMResponses ==
  AsResponse(Blocks \cup {a \o <<NL, NL>> \o b : a \in Blocks, b \in Blocks} \cup {<<>>})

(***************************************************************************)
(* Initial values of the parts a specification does not use.               *)
(***************************************************************************)
ParkLimiter ==
  /\ requestCount = 0 /\ lastRequestTime = 0 /\ requestResetTimeout = FALSE /\ intervals = 0
  /\ nextReset = 0 /\ now = messageDelay
ParkCallers == callerPc = <<>> /\ wakeAt = <<>> /\ recordedInWindow = 0
ParkCall ==
  /\ retryCount = 0 /\ attempts = 0 /\ delays = <<>> /\ allRetryable = TRUE
  /\ lastError = "none" /\ result = <<>>
  /\ threw = FALSE /\ path = "none"
ParkLLM ==
  /\ debugMode = FALSE /\ maxRetries = 1 /\ retryDelay = 1 /\ threads = <<>>
  /\ pc = "off" /\ response = Undefined /\ ParkCall
ParkSearch ==
  /\ history = 0 /\ maxMessages = 0 /\ allMessages = 0 /\ cursor = 0
  /\ hasMore = FALSE /\ pages = 0 /\ searchError = "none" /\ spc = "off"
ParkGroup ==
  /\ messages = <<>> /\ intTs = FALSE /\ threadKeys = <<>> /\ threadMsgs = <<>>
  /\ threadArray = <<>> /\ maxThreads = 0 /\ gpc = "off"
ParkCommand ==
  command = "none" /\ overallSummary = "unset" /\ delivered = "none" /\ cpc = "off"
ParkFan ==
  /\ includeThreads = FALSE /\ matched = 0 /\ threaded = 0 /\ threadMatched = 0
  /\ repliesInFlight = 0 /\ linksInFlight = 0 /\ replies = 0 /\ links = 0
ParkTopics == topics = <<>>
ParkSlash ==
  /\ allowAllPublicChannels = FALSE /\ allowPrivateChannels = FALSE
  /\ channelListed = FALSE /\ channelPrivate = FALSE /\ commandType = "none"
  /\ hasTopic = FALSE /\ hpc = "off" /\ posts = <<>> /\ infoRequests = 0
  /\ historyRequests = 0 /\ summaryCalls = 0 /\ found = -1 /\ escaped = "none"
  /\ logged = FALSE
ParkExpand == channel = {} /\ formattedMessages = <<>> /\ xpc = "off"
ParkChunk == reportContent = <<>> /\ reportChunks = <<>> /\ kpc = "off"
ParkFilter == topic = <<>> /\ text = <<>> /\ passes = FALSE /\ fpc = "off"

(***************************************************************************)
(* SpecParse: parseResponse applied to every raw text and thread list.     *)
(***************************************************************************)
InitParse ==
  /\ ParkLimiter /\ ParkCallers /\ ParkSearch /\ ParkGroup /\ ParkFilter /\ ParkChunk /\ ParkExpand /\ ParkSlash /\ ParkTopics /\ ParkFan /\ ParkCommand
  /\ debugMode = FALSE /\ maxRetries = 1 /\ retryDelay = 1
  /\ threads \in ThreadLists \cup {FourThreads}
  /\ response \in ParseInputs
  /\ ParkCall
  /\ pc = "parse"

ParseResponse ==
  /\ pc = "parse"
  /\ result' = parseResponse(response, threads)
  /\ pc' = "parsed"
  /\ UNCHANGED <<limiterVars, callerVars, searchVars, groupVars, filterVars, chunkVars, expandVars, slashVars, topicVars, fanVars, cmdVars,
                 debugMode, maxRetries, retryDelay, threads, retryCount, attempts,
                 delays, allRetryable, lastError, response, threw, path>>

NextParse == ParseResponse
SpecParse == InitParse /\ [][NextParse]_vars

(***************************************************************************)
(* Spec: one generateThreadSummaries call on the shared client, from its   *)
(* entry to its return, through enforceRateLimit and callLLM's retry loop. *)
(***************************************************************************)
\* states the limiter can be in when the call arrives: idle, a recent call
\* recorded, the window's ceiling reached
LimiterStates ==
  {[count |-> 0, last |-> 0],
   [count |-> maxRequestsPerMinute - 1, last |-> messageDelay],
   [count |-> maxRequestsPerMinute, last |-> 0]}

Init ==
  /\ ParkCallers /\ ParkSearch /\ ParkGroup /\ ParkFilter /\ ParkChunk /\ ParkExpand /\ ParkSlash /\ ParkTopics /\ ParkFan /\ ParkCommand
  /\ now = messageDelay
  /\ \E ls \in LimiterStates : requestCount = ls.count /\ lastRequestTime = ls.last
  /\ requestResetTimeout \in BOOLEAN
  /\ nextReset = IF requestResetTimeout THEN now + ResetInterval ELSE 0
  /\ intervals = IF requestResetTimeout THEN 1 ELSE 0
  /\ debugMode \in BOOLEAN
  /\ maxRetries \in 1..MaxRetriesBound
  /\ retryDelay \in 1..MaxBaseDelay
  /\ threads \in ThreadLists
  /\ response = Undefined
  /\ ParkCall
  /\ pc = "start"

StartTimerOnEveryCall ==
  /\ requestResetTimeout' = TRUE /\ nextReset' = now + ResetInterval
  /\ intervals' = intervals + 1

\* setInterval on the first call only
StartResetTimer ==
  IF requestResetTimeout
    THEN UNCHANGED <<requestResetTimeout, nextReset, intervals>>
    ELSE /\ requestResetTimeout' = TRUE /\ nextReset' = now + ResetInterval
         /\ intervals' = intervals + 1

\* generateThreadSummaries returns what the outcome o carries
Return(o, p, err) ==
  /\ result' = o.value
  /\ threw' = o.threw
  /\ path' = p
  /\ lastError' = err
  /\ pc' = "done"

\* entry of generateThreadSummaries up to the first await: the debug branch, or
\* callLLM and the synchronous part of enforceRateLimit
GenerateThreadSummaries ==
  /\ pc = "start"
  /\ IF debugMode
       THEN /\ Return([threw |-> FALSE, value |-> DebugSummaries(threads)], "debug", "none")
            /\ UNCHANGED limiterVars
       ELSE /\ StartResetTimer
            /\ UNCHANGED now
            /\ IF requestCount >= maxRequestsPerMinute
                 THEN /\ Return(Catch(threads), "error",
                                "Rate limit exceeded. Please try again in a minute.")
                      /\ UNCHANGED <<requestCount, lastRequestTime>>
                 ELSE IF now - lastRequestTime < messageDelay
                   THEN /\ pc' = "rateSleep"
                        /\ UNCHANGED <<requestCount, lastRequestTime, result, threw,
                                       path, lastError>>
                   ELSE /\ requestCount' = requestCount + 1
                        /\ lastRequestTime' = now
                        /\ pc' = "attempt"
                        /\ UNCHANGED <<result, threw, path, lastError>>
  /\ UNCHANGED <<callerVars, searchVars, groupVars, filterVars, chunkVars, expandVars, slashVars, topicVars, fanVars, cmdVars, debugMode, maxRetries,
                 retryDelay, threads, retryCount, attempts, delays, allRetryable,
                 response>>

\* enforceRateLimit after its sleep: the call is recorded
RateLimitWake ==
  /\ pc = "rateSleep"
  /\ now' = lastRequestTime + messageDelay
  /\ requestCount' = requestCount + 1
  /\ lastRequestTime' = now'
  /\ pc' = "attempt"
  /\ UNCHANGED <<requestResetTimeout, intervals, nextReset, callerVars, searchVars, groupVars,
                 filterVars, chunkVars, expandVars, slashVars, topicVars, fanVars, cmdVars, debugMode, maxRetries, retryDelay, threads, retryCount,
                 attempts, delays, allRetryable, lastError, response, result, threw,
                 path>>

\* one iteration of callLLM's loop whose request fails with error e
UpstreamFails(e) ==
  /\ pc = "attempt"
  /\ retryCount < maxRetries
  /\ attempts' = attempts + 1
  /\ allRetryable' = (allRetryable /\ IsRetryable(e))
  /\ LET h == handleError(e, retryCount, maxRetries, retryDelay) IN
       IF h.retry
         THEN /\ delays' = Append(delays, h.delay)
              /\ now' = now + h.delay
              /\ retryCount' = retryCount + 1
              /\ UNCHANGED <<pc, result, threw, path, lastError>>
         ELSE /\ Return(Catch(threads), "error", h.thrown)
              /\ UNCHANGED <<delays, now, retryCount>>
  /\ UNCHANGED <<requestCount, lastRequestTime, requestResetTimeout, intervals, nextReset,
                 callerVars, searchVars, groupVars, filterVars, chunkVars, expandVars, slashVars, topicVars, fanVars, cmdVars, debugMode, maxRetries,
                 retryDelay, threads, response>>

\* the value callLLM returned is parsed, validated and returned
Finish(resp) ==
  /\ response' = resp
  /\ \E o \in {ParseAndValidate(resp, threads)} : Return(o, o.path, "none")

\* one iteration of callLLM's loop whose request succeeds with content resp
UpstreamSucceeds(resp) ==
  /\ pc = "attempt"
  /\ retryCount < maxRetries
  /\ attempts' = attempts + 1
  /\ allRetryable' = FALSE
  /\ Finish(resp)
  /\ UNCHANGED <<limiterVars, callerVars, searchVars, groupVars, filterVars, chunkVars, expandVars, slashVars, topicVars, fanVars, cmdVars, debugMode,
                 maxRetries, retryDelay, threads, retryCount, delays>>

\* callLLM's loop ends with retryCount = maxRetries: the function returns undefined
LoopExit ==
  /\ pc = "attempt"
  /\ retryCount >= maxRetries
  /\ Finish(Undefined)
  /\ UNCHANGED <<limiterVars, callerVars, searchVars, groupVars, filterVars, chunkVars, expandVars, slashVars, topicVars, fanVars, cmdVars, debugMode,
                 maxRetries, retryDelay, threads, retryCount, attempts, delays,
                 allRetryable>>

Next ==
  \/ GenerateThreadSummaries
  \/ RateLimitWake
  \/ \E e \in UpstreamErrors : UpstreamFails(e)
  \/ \E resp \in LLMResponses : UpstreamSucceeds(resp)
  \/ LoopExit

Spec == Init /\ [][Next]_vars

(***************************************************************************)
(* Properties of generateThreadSummaries and parseResponse.                *)
(***************************************************************************)
RateLimitMessage == "Rate limit exceeded. Please try again in a minute."

\* C1: generateThreadSummaries never lets an exception escape and returns at
\* least one summary for a non-empty thread list, whatever the upstream call did
\* (any text, an undefined response, exhausted retries, a non-retryable error,
\* a rejection by the rate limiter).
C1_NeverThrowsNonEmpty ==
  pc = "done" => (~threw /\ (threads # <<>> => result # <<>>))

C1_Witness ==
  /\ pc = "done" /\ threads # <<>> /\ path = "error"
  /\ lastError = RateLimitMessage /\ attempts = 0
  /\ result = ErrorFallback(threads)

ExpectedDelays(R, d) == [x \in 1..R |-> d * Pow2(x - 1)]

C5_PermalinksValid ==
  (pc = "done" /\ ThreadLinksOk(threads)) =>
     \A x \in DOMAIN result : IsValidUrl(result[x].permalink)

C5_Witness ==
  /\ pc = "done" /\ path = "parsed" /\ ThreadLinksOk(threads) /\ threads # <<>>
  /\ response.defined /\ response.tokens = PlaceholderBlock
  /\ result[1].permalink = ReplacementLink(threads, 1)

\* C4: parseResponse returns a non-empty sequence whenever the thread list is
\* non-empty, for every raw text (well-formed, empty, undefined, unstructured,
\* blocks with empty summaries).
C4_ParseNonEmpty ==
  (pc = "parsed" /\ threads # <<>>) => result # <<>>

C4_Witness ==
  /\ pc = "parsed" /\ threads # <<>> /\ response.defined
  /\ response.tokens = <<"Summary:", NL, NL, "Summary:">>
  /\ result = ParserFallback(threads)

(***************************************************************************)
(* SpecLimiter: concurrent requests sharing the one client instance, each  *)
(* inside enforceRateLimit.  A caller is suspended only at the await of    *)
(* sleep; timers fire at their tick.                                       *)
(***************************************************************************)
Callers == 1..NumCallers

InitLimiter ==
  /\ ParkLLM /\ ParkSearch /\ ParkGroup /\ ParkFilter /\ ParkChunk /\ ParkExpand /\ ParkSlash /\ ParkTopics /\ ParkFan /\ ParkCommand
  /\ requestCount = 0
  /\ lastRequestTime = 0
  /\ requestResetTimeout = FALSE /\ intervals = 0
  /\ nextReset = 0
  /\ now = messageDelay
  /\ callerPc = [c \in Callers |-> "idle"]
  /\ wakeAt = [c \in Callers |-> 0]
  /\ recordedInWindow = 0

\* this.requestCount++; this.lastRequestTime = Date.now()
RecordCall ==
  /\ requestCount' = requestCount + 1
  /\ lastRequestTime' = now
  /\ recordedInWindow' = recordedInWindow + 1

RejectAfterRecording(c) ==
  /\ RecordCall
  /\ callerPc' = [callerPc EXCEPT ![c] = "rejected"]
  /\ UNCHANGED wakeAt

\* throw new Error('Rate limit exceeded. Please try again in a minute.')
Reject(c) ==
  /\ callerPc' = [callerPc EXCEPT ![c] = "rejected"]
  /\ UNCHANGED <<requestCount, lastRequestTime, recordedInWindow, wakeAt>>

\* enforceRateLimit from its entry to its first await, or to its end
EnforceRateLimit(c) ==
  /\ callerPc[c] = "idle"
  /\ StartResetTimer
  /\ IF requestCount >= maxRequestsPerMinute
       THEN Reject(c)
       ELSE IF now - lastRequestTime < messageDelay
         THEN /\ callerPc' = [callerPc EXCEPT ![c] = "sleeping"]
              /\ wakeAt' = [wakeAt EXCEPT ![c] = lastRequestTime + messageDelay]
              /\ UNCHANGED <<requestCount, lastRequestTime, recordedInWindow>>
         ELSE /\ RecordCall
              /\ callerPc' = [callerPc EXCEPT ![c] = "recorded"]
              /\ UNCHANGED wakeAt
  /\ UNCHANGED <<now, llmVars, searchVars, groupVars, filterVars, chunkVars, expandVars, slashVars, topicVars, fanVars, cmdVars>>

\* the sleep is over: the call is recorded without looking at the counter again
WakeUp(c) ==
  /\ callerPc[c] = "sleeping"
  /\ now >= wakeAt[c]
  /\ RecordCall
  /\ callerPc' = [callerPc EXCEPT ![c] = "recorded"]
  /\ UNCHANGED <<now, requestResetTimeout, intervals, nextReset, wakeAt, llmVars, searchVars,
                 groupVars, filterVars, chunkVars, expandVars, slashVars, topicVars, fanVars, cmdVars>>

\* the caller goes on with its request (or its error) and may call again
Leave(c) ==
  /\ callerPc[c] \in {"recorded", "rejected"}
  /\ callerPc' = [callerPc EXCEPT ![c] = "idle"]
  /\ UNCHANGED <<limiterVars, wakeAt, recordedInWindow, llmVars, searchVars,
                 groupVars, filterVars, chunkVars, expandVars, slashVars, topicVars, fanVars, cmdVars>>

\* the setInterval callback
ResetWindow ==
  /\ requestResetTimeout
  /\ now >= nextReset
  /\ requestCount' = 0
  /\ recordedInWindow' = 0
  /\ nextReset' = nextReset + ResetInterval
  /\ UNCHANGED <<lastRequestTime, requestResetTimeout, intervals, now, callerPc, wakeAt, llmVars,
                 searchVars, groupVars, filterVars, chunkVars, expandVars, slashVars, topicVars, fanVars, cmdVars>>

Tick ==
  /\ now < MaxTime
  /\ ~(requestResetTimeout /\ now >= nextReset)
  /\ \A c \in Callers : callerPc[c] = "sleeping" => now < wakeAt[c]
  /\ now' = now + 1
  /\ UNCHANGED <<requestCount, lastRequestTime, requestResetTimeout, intervals, nextReset,
                 callerVars, llmVars, searchVars, groupVars, filterVars, chunkVars, expandVars, slashVars, topicVars, fanVars, cmdVars>>

NextLimiter ==
  \/ \E c \in Callers : EnforceRateLimit(c)
  \/ \E c \in Callers : WakeUp(c)
  \/ \E c \in Callers : Leave(c)
  \/ ResetWindow
  \/ Tick

SpecLimiter == InitLimiter /\ [][NextLimiter]_vars

\* C3: between two consecutive resets of the window counter, the calls admitted
\* and recorded by enforceRateLimit never exceed maxRequestsPerMinute, in every
\* interleaving of concurrent callers.
C3_WindowCeiling == recordedInWindow <= maxRequestsPerMinute

(***************************************************************************)
(* SpecSearch: SlackApiClient.searchMessages up to the end of its paging   *)
(* loop.  The channel holds `history` messages; a cursor is the offset of  *)
(* the next page (0: no cursor); a page holds at most PageLimit messages.  *)
(***************************************************************************)
InitSearch ==
  /\ ParkLimiter /\ ParkCallers /\ ParkGroup /\ ParkFilter /\ ParkChunk /\ ParkExpand /\ ParkSlash /\ ParkTopics /\ ParkCommand
  /\ includeThreads \in BOOLEAN
  /\ matched = 0 /\ threaded = 0 /\ threadMatched = 0
  /\ repliesInFlight = 0 /\ linksInFlight = 0 /\ replies = 0 /\ links = 0
  /\ debugMode \in BOOLEAN
  /\ maxRetries = 1 /\ retryDelay = 1 /\ threads = <<>> /\ pc = "off"
  /\ response = Undefined /\ ParkCall
  /\ history \in 0..MaxHistory
  /\ maxMessages \in 1..MaxMaxMessages
  /\ allMessages = 0 /\ cursor = 0 /\ hasMore = FALSE /\ pages = 0
  /\ searchError = "none"
  /\ spc = "start"

NoAccessMessage == "The bot doesn't have access to this channel."

EveryErrorNoAccess(info) == NoAccessMessage

\* the inner catch of the access check: a new Error for channel_not_found,
\* any other error rethrown as it is
AccessError(info) == IF info = "channel_not_found" THEN NoAccessMessage ELSE info

\* entry of searchMessages: the debug branch, or the conversations.info check
SearchMessages(info) ==
  /\ spc = "start"
  /\ IF debugMode
       THEN /\ spc' = "returned"
            /\ UNCHANGED <<allMessages, cursor, hasMore, searchError>>
       ELSE IF info = "ok"
         THEN /\ allMessages' = 0 /\ cursor' = 0 /\ hasMore' = TRUE
              /\ spc' = "loop"
              /\ UNCHANGED searchError
         ELSE /\ searchError' = AccessError(info)
              /\ spc' = "failed"
              /\ UNCHANGED <<allMessages, cursor, hasMore>>
  /\ UNCHANGED <<limiterVars, callerVars, llmVars, groupVars, filterVars, chunkVars, expandVars, slashVars, topicVars, fanVars, cmdVars, history,
                 maxMessages, pages>>

LoopWhileMore == hasMore

\* while (hasMore && allMessages.length < maxMessages)
LoopGuard == hasMore /\ allMessages < maxMessages

\* the sizes a page requested at offset c may have
PageSizes(c) ==
  IF history - c = 0 THEN {0} ELSE 1..Min({PageLimit, history - c})

\* one iteration of the paging loop: the page holds k messages
FetchPage(k) ==
  /\ spc = "loop"
  /\ LoopGuard
  /\ k \in PageSizes(cursor)
  /\ pages' = pages + 1
  /\ allMessages' = allMessages + k
  /\ cursor' = IF cursor + k < history THEN cursor + k ELSE 0
  /\ hasMore' = (cursor' # 0)
  /\ UNCHANGED <<limiterVars, callerVars, llmVars, groupVars, filterVars, chunkVars, expandVars, slashVars, topicVars, fanVars, cmdVars, history,
                 maxMessages, searchError, spc>>

\* one iteration whose conversations.history request fails: the error is rethrown
HistoryFails(e) ==
  /\ spc = "loop"
  /\ LoopGuard
  /\ pages' = pages + 1
  /\ searchError' = e
  /\ spc' = "failed"
  /\ UNCHANGED <<limiterVars, callerVars, llmVars, groupVars, filterVars, chunkVars, expandVars, slashVars, topicVars, fanVars, cmdVars, history,
                 maxMessages, allMessages, cursor, hasMore>>

\* the loop condition is false
EndPaging ==
  /\ spc = "loop"
  /\ ~LoopGuard
  /\ spc' = "fetched"
  /\ UNCHANGED <<limiterVars, callerVars, llmVars, groupVars, filterVars, chunkVars, expandVars, slashVars, topicVars, fanVars, cmdVars, history,
                 maxMessages, allMessages, cursor, hasMore, pages, searchError>>

\* messages.map(...getPermalink...): one request per message, all started at once
StartLinks(n) ==
  IF n = 0
    THEN /\ spc' = "returned"
         /\ UNCHANGED <<linksInFlight, links>>
    ELSE /\ linksInFlight' = n
         /\ links' = links + n
         /\ spc' = "linking"

\* the topic filter keeps m messages, t of them with a thread_ts; with
\* includeThreads one getThreadMessages call per such message is started, all
\* at once, and Promise.all awaits them
FilterAndExpand(m, t) ==
  /\ spc = "fetched"
  /\ m \in 0..Min({allMessages, MaxMatched})
  /\ t \in 0..m
  /\ matched' = m
  /\ threaded' = t
  /\ IF includeThreads /\ t > 0
       THEN /\ repliesInFlight' = t
            /\ replies' = replies + t
            /\ spc' = "expanding"
            /\ UNCHANGED <<linksInFlight, links>>
       ELSE /\ StartLinks(m)
            /\ UNCHANGED <<repliesInFlight, replies>>
  /\ UNCHANGED <<limiterVars, callerVars, llmVars, groupVars, filterVars, chunkVars, expandVars, slashVars, topicVars, cmdVars,
                 history, maxMessages, allMessages, cursor, hasMore, pages, searchError,
                 includeThreads, threadMatched>>

\* one conversations.replies request succeeds; k of its messages pass the
\* filter; after the last one the permalink requests are started
RepliesArrive(k) ==
  /\ spc = "expanding"
  /\ repliesInFlight > 0
  /\ repliesInFlight' = repliesInFlight - 1
  /\ threadMatched' = threadMatched + k
  /\ IF repliesInFlight' = 0
       THEN StartLinks(matched + threadMatched')
       ELSE UNCHANGED <<linksInFlight, links, spc>>
  /\ UNCHANGED <<limiterVars, callerVars, llmVars, groupVars, filterVars, chunkVars, expandVars, slashVars, topicVars, cmdVars,
                 history, maxMessages, allMessages, cursor, hasMore, pages, searchError,
                 includeThreads, matched, threaded, replies>>

\* one conversations.replies request fails: getThreadMessages rethrows,
\* Promise.all rejects and searchMessages rethrows
RepliesFail(e) ==
  /\ spc = "expanding"
  /\ repliesInFlight > 0
  /\ repliesInFlight' = repliesInFlight - 1
  /\ searchError' = e
  /\ spc' = "failed"
  /\ UNCHANGED <<limiterVars, callerVars, llmVars, groupVars, filterVars, chunkVars, expandVars, slashVars, topicVars, cmdVars,
                 history, maxMessages, allMessages, cursor, hasMore, pages,
                 includeThreads, matched, threaded, threadMatched, linksInFlight,
                 replies, links>>

\* one chat.getPermalink request settles: its permalink, or null after an error
PermalinkSettles ==
  /\ spc = "linking"
  /\ linksInFlight > 0
  /\ linksInFlight' = linksInFlight - 1
  /\ spc' = IF linksInFlight' = 0 THEN "returned" ELSE spc
  /\ UNCHANGED <<limiterVars, callerVars, llmVars, groupVars, filterVars, chunkVars, expandVars, slashVars, topicVars, cmdVars,
                 history, maxMessages, allMessages, cursor, hasMore, pages, searchError,
                 includeThreads, matched, threaded, threadMatched, repliesInFlight,
                 replies, links>>

SlackErrors == {"rate_limited", "ETIMEDOUT", "ECONNRESET"}

NextSearch ==
  \/ \E info \in {"ok", "channel_not_found", "missing_scope"} : SearchMessages(info)
  \/ \E k \in 0..PageLimit : FetchPage(k)
  \/ \E e \in SlackErrors : HistoryFails(e)
  \/ EndPaging
  \/ \E m, t \in 0..MaxMatched : FilterAndExpand(m, t)
  \/ \E k \in 0..1 : RepliesArrive(k)
  \/ \E e \in SlackErrors \cup {"thread_not_found"} : RepliesFail(e)
  \/ PermalinkSettles

SpecSearch == InitSearch /\ [][NextSearch]_vars

\* C6: searchMessages never retrieves more than maxMessages raw messages, for
\* any page size, number of pages and maxMessages.
C6_RetrievedAtMostMax == allMessages <= maxMessages

(***************************************************************************)
(* SpecGroup: handleSearchCommand from the messages searchMessages         *)
(* returned to the ranked thread array.  A message is [ts, thread_ts]      *)
(* (thread_ts 0: none).  Slack timestamps are strings with a fraction;     *)
(* the debug branch of searchMessages yields integer-valued numbers.       *)
(***************************************************************************)
KeyOf(m) == IF m.thread_ts # 0 THEN m.thread_ts ELSE m.ts     \* msg.thread_ts || msg.ts

PushFirstOnly(map, k, p) == IF map[k] = <<>> THEN [map EXCEPT ![k] = Append(@, p)] ELSE map

\* threads[threadTs].messages.push(msg)
PushMessage(map, k, p) == [map EXCEPT ![k] = Append(@, p)]

\* messages.forEach(...) from position p on
RECURSIVE GroupFrom(_, _, _, _)
GroupFrom(msgs, p, keys, map) ==
  IF p > Len(msgs) THEN [keys |-> keys, map |-> map]
  ELSE LET k == KeyOf(msgs[p])
           isNew == k \notin DOMAIN map
           keys1 == IF isNew THEN Append(keys, k) ELSE keys
           map1 == IF isNew THEN (k :> <<>>) @@ map ELSE map
       IN GroupFrom(msgs, p + 1, keys1, PushMessage(map1, k, p))

RECURSIVE Ascending(_)
Ascending(S) == IF S = {} THEN <<>> ELSE <<Min(S)>> \o Ascending(S \ {Min(S)})

\* Object.values(threads): integer-like keys first, in ascending numeric order,
\* then the other keys in insertion order
ObjectValues(keys, integerKeys) ==
  IF integerKeys THEN Ascending(Range(keys)) ELSE keys

SizeOf(map, k) == Len(map[k])

InsertAscending(sorted, k, map) ==
  LET n == Cardinality({x \in DOMAIN sorted : SizeOf(map, sorted[x]) <= SizeOf(map, k)})
  IN SubSeq(sorted, 1, n) \o <<k>> \o SubSeq(sorted, n + 1, Len(sorted))

\* where a stable sort by (a, b) => b.messages.length - a.messages.length puts k
InsertByCount(sorted, k, map) ==
  LET n == Cardinality({x \in DOMAIN sorted : SizeOf(map, sorted[x]) >= SizeOf(map, k)})
  IN SubSeq(sorted, 1, n) \o <<k>> \o SubSeq(sorted, n + 1, Len(sorted))

RECURSIVE SortAscendingByCount(_, _)
SortAscendingByCount(seq, map) ==
  IF seq = <<>> THEN <<>>
  ELSE InsertAscending(SortAscendingByCount(SubSeq(seq, 1, Len(seq) - 1), map),
                       seq[Len(seq)], map)

\* Array.prototype.sort, stable
RECURSIVE SortByCount(_, _)
SortByCount(seq, map) ==
  IF seq = <<>> THEN <<>>
  ELSE InsertByCount(SortByCount(SubSeq(seq, 1, Len(seq) - 1), map), seq[Len(seq)], map)

Slice(seq, n) == SubSeq(seq, 1, Min({n, Len(seq)}))          \* seq.slice(0, n)

MessageKinds == UNION {{[ts |-> v, thread_ts |-> r] : r \in 0..v} : v \in 1..MaxTs}
MessageLists == SeqsUpTo(MessageKinds, MaxGroupMsgs)

\* the three test messages of searchMessages' debug branch: now, now - 3600, now - 7200
DebugMessages ==
  <<[ts |-> 3, thread_ts |-> 0], [ts |-> 2, thread_ts |-> 0], [ts |-> 1, thread_ts |-> 0]>>

\* 12 messages, newest first, in 4 threads of sizes 2, 5, 3, 2 (roots 1, 2, 3, 4)
Scenario5322 ==
  [p \in 1..12 |->
     LET v == 13 - p
     IN [ts |-> v,
         thread_ts |-> IF v <= 4 THEN v
                       ELSE IF v = 5 THEN 1
                       ELSE IF v <= 9 THEN 2
                       ELSE IF v <= 11 THEN 3
                       ELSE 4]]

InitGroup ==
  /\ ParkLimiter /\ ParkCallers /\ ParkLLM /\ ParkSearch /\ ParkFilter /\ ParkChunk /\ ParkExpand /\ ParkSlash /\ ParkTopics /\ ParkFan /\ ParkCommand
  /\ intTs \in BOOLEAN
  /\ messages \in IF intTs THEN {DebugMessages} ELSE MessageLists \cup {Scenario5322}
  /\ messages # <<>>
  /\ maxThreads \in 1..MaxThreadsCfg
  /\ threadKeys = <<>> /\ threadMsgs = <<>> /\ threadArray = <<>>
  /\ gpc = "group"

\* const threads = {}; messages.forEach(...)
GroupMessages ==
  /\ gpc = "group"
  /\ LET g == GroupFrom(messages, 1, <<>>, <<>>)
     IN threadKeys' = g.keys /\ threadMsgs' = g.map
  /\ gpc' = "grouped"
  /\ UNCHANGED <<limiterVars, callerVars, llmVars, searchVars, filterVars, chunkVars, expandVars, slashVars, topicVars, fanVars, cmdVars, messages,
                 intTs, threadArray, maxThreads>>

\* Object.values(threads).sort(...).slice(0, config.search.maxThreads)
RankThreads ==
  /\ gpc = "grouped"
  /\ threadArray' = Slice(SortByCount(ObjectValues(threadKeys, intTs), threadMsgs),
                          maxThreads)
  /\ gpc' = "ranked"
  /\ UNCHANGED <<limiterVars, callerVars, llmVars, searchVars, filterVars, chunkVars, expandVars, slashVars, topicVars, fanVars, cmdVars, messages,
                 intTs, threadKeys, threadMsgs, maxThreads>>

NextGroup == GroupMessages \/ RankThreads
SpecGroup == InitGroup /\ [][NextGroup]_vars

Grouped == gpc \in {"grouped", "ranked"}
ThreadSize(k) == Len(threadMsgs[k])
\* the places (thread, index) at which message position p is held
PlacesOf(p) ==
  {<<k, x>> \in UNION {{<<k2, x2>> : x2 \in DOMAIN threadMsgs[k2]} : k2 \in DOMAIN threadMsgs} :
     threadMsgs[k][x] = p}

\* C7: grouping by thread_ts (or the message's own ts) yields threads that hold
\* every input message exactly once, each in the thread keyed by its own thread
\* root, and no thread is empty.
C7_GroupingPartition ==
  Grouped =>
    /\ DOMAIN threadMsgs = Range(threadKeys)
    /\ \A p \in DOMAIN messages : Cardinality(PlacesOf(p)) = 1
    /\ \A k \in DOMAIN threadMsgs :
         /\ threadMsgs[k] # <<>>
         /\ \A x \in DOMAIN threadMsgs[k] :
              /\ threadMsgs[k][x] \in DOMAIN messages
              /\ KeyOf(messages[threadMsgs[k][x]]) = k

C7_Witness ==
  /\ gpc = "grouped" /\ Len(messages) = 3 /\ Len(threadKeys) = 2
  /\ \E k \in DOMAIN threadMsgs : threadMsgs[k] = <<1, 3>>

SizesOf(seq) == [x \in DOMAIN seq |-> ThreadSize(seq[x])]

\* C8: ranking returns at most maxThreads threads, in non-increasing order of
\* message count, each at least as large as every thread left out; sizes 5,3,2,2
\* with maxThreads = 2 give the size-5 thread, then the size-3 thread.
C8_RankTopThreads ==
  gpc = "ranked" =>
    /\ Len(threadArray) <= maxThreads
    /\ Range(threadArray) \subseteq Range(threadKeys)
    /\ \A a, b \in DOMAIN threadArray :
         a < b => ThreadSize(threadArray[a]) >= ThreadSize(threadArray[b])
    /\ \A r \in Range(threadArray) : \A l \in Range(threadKeys) \ Range(threadArray) :
         ThreadSize(r) >= ThreadSize(l)
    /\ (messages = Scenario5322 /\ maxThreads = 2) => SizesOf(threadArray) = <<5, 3>>

C8_Witness ==
  /\ gpc = "ranked" /\ messages = Scenario5322 /\ maxThreads = 2
  /\ threadArray = <<2, 3>> /\ Len(threadKeys) = 4

\* position of thread k in the order in which the threads' first messages were fetched
FetchRank(k) == CHOOSE x \in DOMAIN threadKeys : threadKeys[x] = k

\* C9: among threads with the same message count the ranked output keeps the
\* order in which each thread's first message was fetched, for fractional and
\* for integer-valued timestamps.
C9_TiesKeepFetchOrder ==
  gpc = "ranked" =>
    \A a, b \in DOMAIN threadArray :
      (a < b /\ ThreadSize(threadArray[a]) = ThreadSize(threadArray[b]))
        => FetchRank(threadArray[a]) < FetchRank(threadArray[b])

(***************************************************************************)
(* SpecFilter: the topic filter of searchMessages on one message.          *)
(***************************************************************************)
TAB == "TAB"
Chars == {"a", "b", "A", " ", TAB}

LowerChar(c) == IF c = "A" THEN "a" ELSE c
ToLowerCase(str) == [x \in DOMAIN str |-> LowerChar(str[x])]

\* str.split(' ')
RECURSIVE SplitOnSpace(_, _, _)
SplitOnSpace(str, x, cur) ==
  IF x > Len(str) THEN <<cur>>
  ELSE IF str[x] = " " THEN <<cur>> \o SplitOnSpace(str, x + 1, <<>>)
  ELSE SplitOnSpace(str, x + 1, Append(cur, str[x]))

\* str.includes(term)
Includes(str, term) ==
  \E x \in 1..(Len(str) - Len(term) + 1) : SubSeq(str, x, x + Len(term) - 1) = term

\* the predicate of allMessages.filter(...)
TopicFilter(msgText, tp) ==
  LET lowered == ToLowerCase(msgText)
      searchTerms == SplitOnSpace(ToLowerCase(tp), 1, <<>>)
  IN \A x \in DOMAIN searchTerms : Includes(lowered, searchTerms[x])

InitFilter ==
  /\ ParkLimiter /\ ParkCallers /\ ParkLLM /\ ParkSearch /\ ParkGroup /\ ParkCommand
  /\ ParkFan /\ ParkTopics /\ ParkSlash /\ ParkExpand /\ ParkChunk
  /\ topic \in SeqsUpTo(Chars, MaxTopicLen)
  /\ text \in SeqsUpTo(Chars, MaxMsgTextLen)
  /\ passes = FALSE
  /\ fpc = "ready"

ApplyTopicFilter ==
  /\ fpc = "ready"
  /\ passes' = TopicFilter(text, topic)
  /\ fpc' = "filtered"
  /\ UNCHANGED <<limiterVars, callerVars, llmVars, searchVars, groupVars, cmdVars,
                 fanVars, topicVars, slashVars, expandVars, chunkVars, topic, text>>

NextFilter == ApplyTopicFilter
SpecFilter == InitFilter /\ [][NextFilter]_vars

IsWhitespace(c) == c \in {" ", TAB}

\* the terms obtained by splitting str on whitespace
WhitespaceTerms(str) ==
  {SubSeq(str, a, b) : <<a, b>> \in
     {<<a, b>> \in (DOMAIN str) \X (DOMAIN str) :
        /\ a <= b
        /\ \A x \in a..b : ~IsWhitespace(str[x])
        /\ (a = 1 \/ IsWhitespace(str[a - 1]))
        /\ (b = Len(str) \/ IsWhitespace(str[b + 1]))}}

\* C10: a message passes the topic filter iff every term of the lower-cased topic,
\* split on whitespace (repeated spaces, tabs), is a substring of the lower-cased
\* message text.
C10_FilterIsWhitespaceConjunction ==
  fpc = "filtered" =>
    (passes <=> \A term \in WhitespaceTerms(ToLowerCase(topic)) :
                   Includes(ToLowerCase(text), term))

(***************************************************************************)
(* Retry decisions of callLLM and handleError, as steps of Spec.           *)
(***************************************************************************)
ServerErrors == {"500", "502", "503"}                \* the 5xx statuses among UpstreamErrors
TransientErrors == {"429"} \cup ServerErrors \cup CodeErrors

\* the step UpstreamFails(e) ended in a retry
Retried == retryCount' = retryCount + 1 /\ pc' = "attempt"

\* C11: while retries remain, a failed upstream call is retried iff the failure
\* is a 429, a server error with any 5xx status, or a connection-level timeout
\* or reset.
C11_RetryIffTransient ==
  [][\A e \in UpstreamErrors : UpstreamFails(e) => (Retried <=> e \in TransientErrors)]_vars

InvalidKeyMessage == "Invalid API key. Please check your configuration."
InvalidRequestMessage == "Invalid request"

\* C12: on a 401 or a 400 no backoff delay is slept, no further upstream attempt
\* is made in the call, and the error raised names the cause.
C12_NonRetryableFailsAtOnce ==
  [][/\ \A e \in {"401", "400"} :
          UpstreamFails(e) =>
            /\ delays' = delays /\ now' = now /\ retryCount' = retryCount
            /\ pc' = "done"
            /\ lastError' = (IF e = "401" THEN InvalidKeyMessage ELSE InvalidRequestMessage)
      /\ (lastError \in {InvalidKeyMessage, InvalidRequestMessage} =>
            attempts' = attempts /\ delays' = delays)]_vars

C12_Witness ==
  /\ pc = "done" /\ lastError = InvalidKeyMessage
  /\ attempts = 2 /\ Len(delays) = 1 /\ retryCount = 1

(***************************************************************************)
(* SpecSummary: the holistic summary of handleContextCommand and           *)
(* handleReportCommand: OpenAIClient.summarizeContext (its own rate-limit  *)
(* call and retry loop) inside the command's try/catch, then the message   *)
(* the command posts.  overallSummary is "debug" (the debug text), "llm"   *)
(* (the upstream content), "local" (the catch block's `Found N messages    *)
(* about ...` string) or "undefined".                                      *)
(***************************************************************************)
Commands == {"context", "report"}

InitSummary ==
  /\ ParkCallers /\ ParkSearch /\ ParkGroup /\ ParkFilter /\ ParkChunk /\ ParkExpand /\ ParkSlash /\ ParkTopics /\ ParkFan
  /\ now = messageDelay
  /\ \E ls \in LimiterStates : requestCount = ls.count /\ lastRequestTime = ls.last
  /\ requestResetTimeout \in BOOLEAN
  /\ nextReset = IF requestResetTimeout THEN now + ResetInterval ELSE 0
  /\ intervals = IF requestResetTimeout THEN 1 ELSE 0
  /\ debugMode \in BOOLEAN
  /\ maxRetries \in 1..MaxRetriesBound
  /\ retryDelay \in 1..MaxBaseDelay
  /\ threads = <<>> /\ pc = "off" /\ response = Undefined
  /\ ParkCall
  /\ command \in Commands
  /\ overallSummary = "unset"
  /\ delivered = "none"
  /\ cpc = "start"

\* the command's catch block around summarizeContext
LocalSummary(err) ==
  /\ overallSummary' = "local"
  /\ lastError' = err
  /\ cpc' = "built"

\* summarizeContext up to its loop: the debug branch, or enforceRateLimit
SummarizeContext ==
  /\ cpc = "start"
  /\ IF debugMode
       THEN /\ overallSummary' = "debug"
            /\ cpc' = "built"
            /\ UNCHANGED <<limiterVars, lastError>>
       ELSE /\ StartResetTimer
            /\ IF requestCount >= maxRequestsPerMinute
                 THEN /\ LocalSummary("Rate limit exceeded. Please try again in a minute.")
                      /\ UNCHANGED <<requestCount, lastRequestTime, now>>
                 ELSE /\ now' = Max({now, lastRequestTime + messageDelay})
                      /\ requestCount' = requestCount + 1
                      /\ lastRequestTime' = now'
                      /\ cpc' = "attempt"
                      /\ UNCHANGED <<overallSummary, lastError>>
  /\ UNCHANGED <<callerVars, searchVars, groupVars, filterVars, chunkVars, expandVars, slashVars, topicVars, fanVars, debugMode, maxRetries,
                 retryDelay, threads, pc, retryCount, attempts, delays, allRetryable,
                 response, result, threw, path, command, delivered>>

\* one iteration of summarizeContext's loop whose request fails with error e
SummaryFails(e) ==
  /\ cpc = "attempt"
  /\ retryCount < maxRetries
  /\ attempts' = attempts + 1
  /\ allRetryable' = (allRetryable /\ IsRetryable(e))
  /\ \E h \in {handleError(e, retryCount, maxRetries, retryDelay)} :
       IF h.retry
         THEN /\ delays' = Append(delays, h.delay)
              /\ now' = now + h.delay
              /\ retryCount' = retryCount + 1
              /\ UNCHANGED <<overallSummary, lastError, cpc>>
         ELSE /\ LocalSummary(h.thrown)
              /\ UNCHANGED <<delays, now, retryCount>>
  /\ UNCHANGED <<requestCount, lastRequestTime, requestResetTimeout, intervals, nextReset,
                 callerVars, searchVars, groupVars, filterVars, chunkVars, expandVars, slashVars, topicVars, fanVars, debugMode, maxRetries,
                 retryDelay, threads, pc, response, result, threw, path, command,
                 delivered>>

\* one iteration whose request succeeds: response.choices[0].message.content
SummarySucceeds ==
  /\ cpc = "attempt"
  /\ retryCount < maxRetries
  /\ attempts' = attempts + 1
  /\ allRetryable' = FALSE
  /\ overallSummary' = "llm"
  /\ cpc' = "built"
  /\ UNCHANGED <<limiterVars, callerVars, searchVars, groupVars, filterVars, chunkVars, expandVars, slashVars, topicVars, fanVars, debugMode,
                 maxRetries, retryDelay, threads, pc, retryCount, delays, lastError,
                 response, result, threw, path, command, delivered>>

\* the loop ends with retryCount = maxRetries: summarizeContext returns undefined
SummaryLoopExit ==
  /\ cpc = "attempt"
  /\ retryCount >= maxRetries
  /\ overallSummary' = "undefined"
  /\ cpc' = "built"
  /\ UNCHANGED <<limiterVars, callerVars, searchVars, groupVars, filterVars, chunkVars, expandVars, slashVars, topicVars, fanVars, llmVars,
                 command, delivered>>

\* handleContextCommand: the summary becomes a section's text; a section
\* without text may be refused by chat.postMessage, which the outer catch
\* answers with the error message
DeliverContext ==
  /\ cpc = "built" /\ command = "context"
  /\ \E accepted \in (IF overallSummary = "undefined" THEN BOOLEAN ELSE {TRUE}) :
       delivered' = IF accepted THEN "result" ELSE "error"
  /\ cpc' = "delivered"
  /\ UNCHANGED <<limiterVars, callerVars, searchVars, groupVars, filterVars, chunkVars, expandVars, slashVars, topicVars, fanVars, llmVars,
                 command, overallSummary>>

\* handleReportCommand: chunkResponse(reportContent) reads text.length, a
\* TypeError on undefined, which the outer catch answers with the error message
DeliverReport ==
  /\ cpc = "built" /\ command = "report"
  /\ delivered' = IF overallSummary = "undefined" THEN "error" ELSE "result"
  /\ cpc' = "delivered"
  /\ UNCHANGED <<limiterVars, callerVars, searchVars, groupVars, filterVars, chunkVars, expandVars, slashVars, topicVars, fanVars, llmVars,
                 command, overallSummary>>

NextSummary ==
  \/ SummarizeContext
  \/ \E e \in UpstreamErrors : SummaryFails(e)
  \/ SummarySucceeds
  \/ SummaryLoopExit
  \/ DeliverContext
  \/ DeliverReport

SpecSummary == InitSummary /\ [][NextSummary]_vars

\* C13: when every upstream attempt of the holistic summary fails with a
\* retryable error, the context and report commands end with the non-empty
\* deterministic local summary and deliver their result message, not an error.
C13_ExhaustedSummaryDegrades ==
  (cpc = "delivered" /\ attempts >= 1 /\ allRetryable) =>
     (overallSummary = "local" /\ delivered = "result")

(***************************************************************************)
(* The size of the prompt generateThreadSummaries builds, in units: one    *)
(* for the fixed instructions, one per thread header, one per message.     *)
(***************************************************************************)
RECURSIVE SumMessages(_, _)
SumMessages(ths, x) == IF x > Len(ths) THEN 0 ELSE 1 + ths[x].messages + SumMessages(ths, x + 1)

PromptSize(ths) == 1 + SumMessages(ths, 1)

\* C14: a summarization request whose size exceeds the budget is never sent
\* upstream: the call makes no upstream attempt (it fails before the first one).
C14_OverBudgetNeverSent ==
  (~debugMode /\ PromptSize(threads) > maxTokens) => attempts = 0

(***************************************************************************)
(* Properties of enforceRateLimit under SpecLimiter.                       *)
(***************************************************************************)
\* a step that records a call
Records == recordedInWindow' = recordedInWindow + 1

\* C15: any two calls recorded by enforceRateLimit on the same client are
\* recorded at least messageDelay apart, in every interleaving, also when a
\* second caller enters while the first is still sleeping.
C15_RecordsSpacedByDelay ==
  [][Records => now - lastRequestTime >= messageDelay]_vars

\* C16: at the ceiling enforceRateLimit raises the rate-limit error without
\* sleeping and without recording: requestCount and lastRequestTime are
\* unchanged, and the rejected caller is not taken up again by the limiter.
C16_CeilingRejectsAtOnce ==
  [][\A c \in Callers :
       /\ (EnforceRateLimit(c) /\ requestCount >= maxRequestsPerMinute) =>
            /\ callerPc'[c] = "rejected"
            /\ requestCount' = requestCount /\ lastRequestTime' = lastRequestTime
            /\ recordedInWindow' = recordedInWindow
            /\ now' = now /\ wakeAt' = wakeAt
       /\ (callerPc[c] = "rejected" /\ callerPc'[c] # "rejected") =>
            /\ callerPc'[c] = "idle"
            /\ requestCount' = requestCount /\ lastRequestTime' = lastRequestTime]_vars

C16_Witness ==
  \E c \in Callers :
    /\ callerPc[c] = "rejected"
    /\ requestCount = maxRequestsPerMinute
    /\ lastRequestTime < now

(***************************************************************************)
(* Properties of searchMessages under SpecSearch.                          *)
(***************************************************************************)
\* C17: a history-page or thread-replies request that fails with a transient
\* error (rate limited, timeout, connection reset) is retried, so the failure
\* does not end the search while the request's retries are not used up; the
\* code makes no retry, so none is ever used up.
C17_TransientFailureRetried ==
  [][\A e \in SlackErrors : (HistoryFails(e) \/ RepliesFail(e)) => spc' # "failed"]_vars

InfoErrors == {"channel_not_found", "missing_scope"}

\* C18: when the channel check fails with channel_not_found, searchMessages
\* fails with the bot-lacks-access error before any history-page, thread-replies
\* or permalink request and without retry; any other failure of the check
\* propagates as a different error.
C18_NoAccessFailsFirst ==
  [][(\A info \in InfoErrors :
        (SearchMessages(info) /\ ~debugMode) =>
          (/\ spc' = "failed"
           /\ pages' = 0 /\ replies' = 0 /\ links' = 0
           /\ ((info = "channel_not_found") <=> (searchError' = NoAccessMessage))))
     /\ (spc = "failed" => UNCHANGED <<spc, pages, replies, links, searchError>>)]_vars

C18_Witness ==
  /\ spc = "failed" /\ searchError = NoAccessMessage
  /\ pages = 0 /\ replies = 0 /\ links = 0 /\ history > 0

\* C19: a thread-replies request for a thread that has disappeared yields an
\* empty sequence, so a search that expands such a thread never fails because
\* of it.
C19_GoneThreadYieldsEmpty ==
  spc = "failed" => searchError # "thread_not_found"

\* C20: at no point of a search are more thread-replies requests, or more
\* permalink requests, in flight than the worker cap.
C20_FanOutBounded ==
  repliesInFlight <= WorkerCap /\ linksInFlight <= WorkerCap

(***************************************************************************)
(* Properties of parseResponse under SpecParse.                            *)
(***************************************************************************)
WellFormedFirst == {WellFormedBlock \o sep \o LinkLessBlock : sep \in Separators}
LinkLessFirst == {LinkLessBlock \o sep \o WellFormedBlock : sep \in Separators}

\* the permalink of the fallback thread at position x
FallbackLinkAt(ths, x) == OrElse(ths[x].permalink, <<GenericLink>>)

\* C21: for a raw text made of one well-formed block and one block with a
\* summary and a score but no link line, in either order, parseResponse returns
\* two summaries, the one of the link-less block with the permalink of the
\* fallback thread at its position.
C21_LinkLessBlockKept ==
  (pc = "parsed" /\ response.defined /\ Len(threads) >= 2) =>
     /\ response.tokens \in WellFormedFirst =>
          (Len(result) = 2 /\ result[2].permalink = FallbackLinkAt(threads, 2))
     /\ response.tokens \in LinkLessFirst =>
          (Len(result) = 2 /\ result[1].permalink = FallbackLinkAt(threads, 1))

\* scores are kept in tenths: [0,1] is 0..10
ScoreInRange(v) == v \in 0..10

\* C22: every summary produced by parseResponse has a relevanceScore within
\* [0,1]; a score label followed by a number outside [0,1] never yields an
\* out-of-range score.
C22_ScoresWithinUnitInterval ==
  pc = "parsed" => \A x \in DOMAIN result : ScoreInRange(result[x].relevanceScore)

(***************************************************************************)
(* Link validation, under Spec.                                            *)
(***************************************************************************)
\* a string that starts with http:// or https:// and holds no bracket
AcceptedLink(p) ==
  /\ p # <<>>
  /\ p[1] \in HttpTokens
  /\ ~\E x \in DOMAIN p : p[x] \in BracketTokens

\* the thread at position x, the last thread when x exceeds the thread count
ThreadFor(ths, x) == IF x <= Len(ths) THEN x ELSE Len(ths)

\* that thread's permalink, or the generic link of its index when it has none
FallbackFor(ths, x) ==
  IF ths[ThreadFor(ths, x)].permalink # <<>>
    THEN ths[ThreadFor(ths, x)].permalink
    ELSE <<ThreadLinks[ThreadFor(ths, x)]>>

\* C23: link validation keeps a summary's link unchanged iff it starts with
\* http:// or https:// and contains neither '[' nor ']'; otherwise the link is
\* replaced by the permalink of the thread at the same position (the last
\* thread beyond the thread count), or a generic link when that thread has none.
C23_LinkKeptIffAccepted ==
  (pc = "done" /\ path = "parsed") =>
     \A parsed \in {parseResponse(response, threads)} :
       /\ Len(result) = Len(parsed)
       /\ \A x \in DOMAIN parsed :
            /\ result[x].summary = parsed[x].summary
            /\ result[x].permalink =
                 IF AcceptedLink(parsed[x].permalink) THEN parsed[x].permalink
                 ELSE FallbackFor(threads, x)

C23_Witness ==
  /\ pc = "done" /\ path = "parsed"
  /\ response.tokens = PlaceholderBlock \o <<NL, NL>> \o PlaceholderBlock
  /\ Len(threads) = 1 /\ Len(result) = 2
  /\ result[2].permalink = <<OwnLinks[1]>>

(***************************************************************************)
(* SpecDebug: the three operations of the LLM client, each entered once,   *)
(* with debug mode on or off: generateThreadSummaries (Spec),              *)
(* summarizeContext (SpecSummary) and extractTopics.                       *)
(***************************************************************************)
\* ['debug-topic-1', 'debug-topic-2', 'debug-topic-3']
DebugTopics == <<"debug-topic-1", "debug-topic-2", "debug-topic-3">>

\* the terms an upstream answer holds between its commas
TopicTerms == {"a", "b"}
TopicAnswers == {t \in SeqsUpTo(TopicTerms, MaxTopicsOut) : t # <<>>}

InitTopics ==
  /\ ParkCallers /\ ParkSearch /\ ParkGroup /\ ParkFilter /\ ParkChunk /\ ParkExpand /\ ParkSlash /\ ParkFan /\ ParkCommand
  /\ ParkTopics
  /\ now = messageDelay
  /\ \E ls \in LimiterStates : requestCount = ls.count /\ lastRequestTime = ls.last
  /\ requestResetTimeout \in BOOLEAN
  /\ nextReset = IF requestResetTimeout THEN now + ResetInterval ELSE 0
  /\ intervals = IF requestResetTimeout THEN 1 ELSE 0
  /\ debugMode \in BOOLEAN
  /\ maxRetries \in 1..MaxRetriesBound
  /\ retryDelay \in 1..MaxBaseDelay
  /\ threads = <<>> /\ response = Undefined
  /\ ParkCall
  /\ pc = "topicsStart"

\* extractTopics throws err to its caller
TopicsThrow(err) ==
  /\ lastError' = err
  /\ threw' = TRUE
  /\ pc' = "topicsDone"
  /\ UNCHANGED topics

\* extractTopics returns the list t
TopicsReturn(t) ==
  /\ topics' = t
  /\ pc' = "topicsDone"
  /\ UNCHANGED <<lastError, threw>>

\* extractTopics up to its first await: the bypass returns the debug topics;
\* otherwise callLLM and the synchronous part of enforceRateLimit
TopicsEntry(bypass) ==
  /\ pc = "topicsStart"
  /\ IF bypass
       THEN /\ TopicsReturn(DebugTopics)
            /\ UNCHANGED limiterVars
       ELSE /\ StartResetTimer
            /\ UNCHANGED now
            /\ IF requestCount >= maxRequestsPerMinute
                 THEN /\ TopicsThrow("Rate limit exceeded. Please try again in a minute.")
                      /\ UNCHANGED <<requestCount, lastRequestTime>>
                 ELSE IF now - lastRequestTime < messageDelay
                   THEN /\ pc' = "topicsSleep"
                        /\ UNCHANGED <<requestCount, lastRequestTime, topics, lastError,
                                       threw>>
                   ELSE /\ requestCount' = requestCount + 1
                        /\ lastRequestTime' = now
                        /\ pc' = "topicsAttempt"
                        /\ UNCHANGED <<topics, lastError, threw>>
  /\ UNCHANGED <<callerVars, searchVars, groupVars, filterVars, chunkVars, expandVars, slashVars, fanVars, cmdVars, debugMode,
                 maxRetries, retryDelay, threads, retryCount, attempts, delays,
                 allRetryable, response, result, path>>

ExtractTopicsWithoutBypass == TopicsEntry(FALSE)

\* if (config.debugMode) return super.extractTopics(text)
ExtractTopics == TopicsEntry(debugMode)

\* enforceRateLimit after its sleep: the call is recorded
TopicsWake ==
  /\ pc = "topicsSleep"
  /\ now' = lastRequestTime + messageDelay
  /\ requestCount' = requestCount + 1
  /\ lastRequestTime' = now'
  /\ pc' = "topicsAttempt"
  /\ UNCHANGED <<requestResetTimeout, intervals, nextReset, callerVars, searchVars, groupVars,
                 filterVars, chunkVars, expandVars, slashVars, fanVars, cmdVars, topicVars, debugMode, maxRetries, retryDelay,
                 threads, retryCount, attempts, delays, allRetryable, lastError,
                 response, result, threw, path>>

\* one iteration of callLLM's loop whose request fails with error e
TopicsFail(e) ==
  /\ pc = "topicsAttempt"
  /\ retryCount < maxRetries
  /\ attempts' = attempts + 1
  /\ allRetryable' = (allRetryable /\ IsRetryable(e))
  /\ \E h \in {handleError(e, retryCount, maxRetries, retryDelay)} :
       IF h.retry
         THEN /\ delays' = Append(delays, h.delay)
              /\ now' = now + h.delay
              /\ retryCount' = retryCount + 1
              /\ UNCHANGED <<pc, topics, lastError, threw>>
         ELSE /\ TopicsThrow(h.thrown)
              /\ UNCHANGED <<delays, now, retryCount>>
  /\ UNCHANGED <<requestCount, lastRequestTime, requestResetTimeout, intervals, nextReset,
                 callerVars, searchVars, groupVars, filterVars, chunkVars, expandVars, slashVars, fanVars, cmdVars, debugMode,
                 maxRetries, retryDelay, threads, response, result, path>>

\* one iteration that succeeds: response.split(',').map(t => t.trim()).slice(0, 3)
TopicsSucceed(answer) ==
  /\ pc = "topicsAttempt"
  /\ retryCount < maxRetries
  /\ attempts' = attempts + 1
  /\ allRetryable' = FALSE
  /\ TopicsReturn(SubSeq(answer, 1, Min({3, Len(answer)})))
  /\ UNCHANGED <<limiterVars, callerVars, searchVars, groupVars, filterVars, chunkVars, expandVars, slashVars, fanVars, cmdVars,
                 debugMode, maxRetries, retryDelay, threads, retryCount, delays,
                 response, result, path>>

\* callLLM's loop ends with retryCount = maxRetries: response is undefined and
\* response.split throws a TypeError
TopicsLoopExit ==
  /\ pc = "topicsAttempt"
  /\ retryCount >= maxRetries
  /\ TopicsThrow("TypeError")
  /\ UNCHANGED <<limiterVars, callerVars, searchVars, groupVars, filterVars, chunkVars, expandVars, slashVars, fanVars, cmdVars,
                 debugMode, maxRetries, retryDelay, threads, retryCount, attempts,
                 delays, allRetryable, response, result, path>>

NextTopics ==
  \/ ExtractTopics
  \/ TopicsWake
  \/ \E e \in UpstreamErrors : TopicsFail(e)
  \/ \E answer \in TopicAnswers : TopicsSucceed(answer)
  \/ TopicsLoopExit

InitDebug == Init \/ InitSummary \/ InitTopics
NextDebug == Next \/ NextSummary \/ NextTopics
SpecDebug == InitDebug /\ [][NextDebug]_vars

\* the canned output of the operation that was entered
CannedOutput ==
  \/ pc = "done" /\ path = "debug" /\ ~threw /\ result = DebugSummaries(threads)
  \/ cpc \in {"built", "delivered"} /\ overallSummary = "debug"
  \/ pc = "topicsDone" /\ ~threw /\ topics = DebugTopics

\* C24: with debug mode on, thread summarization, holistic summarization and
\* topic extraction issue no upstream request and leave the rate limiter's
\* state (requestCount, lastRequestTime, the reset timer) unchanged, and
\* return their canned output.
C24_DebugBypassesUpstream ==
  [][debugMode => (/\ UNCHANGED limiterVars
                   /\ attempts = 0 /\ attempts' = 0
                   /\ CannedOutput')]_vars

C24_Witness ==
  /\ debugMode /\ pc = "topicsDone" /\ topics = DebugTopics
  /\ requestCount = 1 /\ requestResetTimeout

(***************************************************************************)
(* SpecCommand: handleSlashCommand and the handler it dispatches to, one   *)
(* step per await.  searchMessages is followed through its requests; the   *)
(* LLM client's operations are followed as calls and their outcomes.       *)
(***************************************************************************)
CommandTypes == {"modal", "search", "context", "report", "help", "other"}
Handlers == {"search", "context", "report"}

\* the three test messages searchMessages returns in debug mode
DebugMessageCount == 3

InitCommand ==
  /\ ParkLimiter /\ ParkCallers /\ ParkSearch /\ ParkGroup /\ ParkFilter /\ ParkChunk /\ ParkExpand /\ ParkFan
  /\ ParkCommand /\ ParkTopics
  /\ debugMode \in BOOLEAN
  /\ maxRetries = 1 /\ retryDelay = 1 /\ threads = <<>> /\ pc = "off"
  /\ response = Undefined /\ ParkCall
  /\ allowAllPublicChannels \in BOOLEAN
  /\ allowPrivateChannels \in BOOLEAN
  /\ channelListed \in BOOLEAN
  /\ channelPrivate \in BOOLEAN
  /\ commandType \in CommandTypes
  /\ hasTopic \in (IF commandType \in Handlers THEN BOOLEAN ELSE {FALSE})
  /\ hpc = "start"
  /\ posts = <<>>
  /\ infoRequests = 0 /\ historyRequests = 0 /\ summaryCalls = 0
  /\ found = -1
  /\ escaped = "none"
  /\ logged = FALSE

llmParked == <<llmVars, limiterVars, callerVars, searchVars, groupVars, filterVars, fanVars,
               cmdVars, topicVars, expandVars, chunkVars>>
configVars == <<allowAllPublicChannels, allowPrivateChannels, channelListed, channelPrivate,
                commandType, hasTopic>>

\* config.allowAllPublicChannels || config.allowedChannels.includes(channel_id)
AllowEveryChannel == TRUE
IsChannelAllowed == allowAllPublicChannels \/ channelListed

\* chat.postMessage for the context result, chat.postEphemeral otherwise
PublicResults(cmd) == "public"
ResultVisibility(cmd) == IF cmd = "context" THEN "public" ELSE "ephemeral"

\* if (!messages.length) { post the notice; return }
AlwaysSummarize(n) == "summaries"
AfterSearch(n) == IF n = 0 THEN "notice" ELSE "summaries"

\* one message handed to Slack, accepted or refused
Post(vis, txt, ok) == posts' = Append(posts, [vis |-> vis, text |-> txt, ok |-> ok])

\* where the handler of the command starts after the dispatch
HandlerEntry ==
  CASE commandType = "modal" -> "openModal"
    [] commandType = "help"  -> "help"
    [] commandType = "other" -> "invalid"
    [] OTHER -> IF ~hasTopic THEN "needTopic"
                ELSE IF debugMode THEN AfterSearch(DebugMessageCount) ELSE "info"

\* ack and the allowed-channel test
HandleSlashCommand ==
  /\ hpc = "start"
  /\ hpc' = IF IsChannelAllowed THEN "validate" ELSE "refuse"
  /\ UNCHANGED <<llmParked, configVars, posts, infoRequests, historyRequests,
                 summaryCalls, found, escaped, logged>>

\* what a post outside every try block says
FinalText ==
  [refuse |-> "refusal", noAccess |-> "noAccess", modalError |-> "error",
   helpFallback |-> "helpFallback", invalid |-> "invalid"]

\* a postEphemeral outside every try block: its failure leaves handleSlashCommand
PostAndReturn(ok) ==
  /\ hpc \in DOMAIN FinalText
  /\ Post("ephemeral", FinalText[hpc], ok)
  /\ escaped' = IF ok THEN escaped
                ELSE IF hpc = "helpFallback" THEN "handler" ELSE "dispatcher"
  /\ hpc' = "returned"
  /\ UNCHANGED <<llmParked, configVars, infoRequests, historyRequests, summaryCalls,
                 found, logged>>

\* validateChannelAccess: conversations.info, then the dispatch on the text
ValidateChannelAccess(ok) ==
  /\ hpc = "validate"
  /\ infoRequests' = infoRequests + 1
  /\ hpc' = IF ok THEN HandlerEntry ELSE "noAccess"
  /\ found' = IF ok /\ commandType \in Handlers /\ hasTopic /\ debugMode
                THEN DebugMessageCount ELSE found
  /\ UNCHANGED <<llmParked, configVars, posts, historyRequests, summaryCalls, escaped,
                 logged>>

\* views.open for an empty command
OpenModal(ok) ==
  /\ hpc = "openModal"
  /\ hpc' = IF ok THEN "returned" ELSE "modalError"
  /\ UNCHANGED <<llmParked, configVars, posts, infoRequests, historyRequests,
                 summaryCalls, found, escaped, logged>>

\* handleHelpCommand's first post
HandleHelpCommand(ok) ==
  /\ hpc = "help"
  /\ Post("ephemeral", "help", ok)
  /\ hpc' = IF ok THEN "returned" ELSE "helpFallback"
  /\ UNCHANGED <<llmParked, configVars, infoRequests, historyRequests, summaryCalls,
                 found, escaped, logged>>

PostWithoutReturn(at, vis, txt, ok, onFail) ==
  /\ hpc = at
  /\ Post(vis, txt, ok)
  /\ hpc' = onFail
  /\ UNCHANGED <<llmParked, configVars, infoRequests, historyRequests, summaryCalls,
                 found, escaped, logged>>

\* a post inside the handler's try block: txt with visibility vis; its
\* failure continues at onFail
PostInTry(at, vis, txt, ok, onFail) ==
  /\ hpc = at
  /\ Post(vis, txt, ok)
  /\ hpc' = IF ok THEN "returned" ELSE onFail
  /\ UNCHANGED <<llmParked, configVars, infoRequests, historyRequests, summaryCalls,
                 found, escaped, logged>>

\* if (!topic) { post 'Please specify ...'; return }
PostNeedTopic(ok) == PostInTry("needTopic", "ephemeral", "needTopic", ok, "caught")

\* searchMessages: conversations.info
SearchInfo(ok) ==
  /\ hpc = "info"
  /\ infoRequests' = infoRequests + 1
  /\ hpc' = IF ok THEN "page" ELSE "caught"
  /\ UNCHANGED <<llmParked, configVars, posts, historyRequests, summaryCalls, found,
                 escaped, logged>>

\* searchMessages: one conversations.history request of the paging loop
SearchPage(outcome) ==
  /\ hpc = "page"
  /\ outcome = "more" => historyRequests + 1 < MaxPagesCmd
  /\ historyRequests' = historyRequests + 1
  /\ hpc' = CASE outcome = "fail" -> "caught"
              [] outcome = "more" -> "page"
              [] outcome = "last" -> "expand"
  /\ UNCHANGED <<llmParked, configVars, posts, infoRequests, summaryCalls, found,
                 escaped, logged>>

\* searchMessages: filter, thread expansion and permalinks; n messages return
SearchReturns(ok, n) ==
  /\ hpc = "expand"
  /\ found' = IF ok THEN n ELSE found
  /\ hpc' = IF ok THEN AfterSearch(n) ELSE "caught"
  /\ UNCHANGED <<llmParked, configVars, posts, infoRequests, historyRequests,
                 summaryCalls, escaped, logged>>

\* the 'No messages found' notice
PostNotice(ok) == PostInTry("notice", "ephemeral", "notice", ok, "caught")

\* generateThreadSummaries inside its own try block
ThreadSummaries ==
  /\ hpc = "summaries"
  /\ summaryCalls' = summaryCalls + 1
  /\ hpc' = IF commandType = "search" THEN "results" ELSE "overall"
  /\ UNCHANGED <<llmParked, configVars, posts, infoRequests, historyRequests, found,
                 escaped, logged>>

\* summarizeContext inside its own try block: a text, an exception answered
\* by the local text, or undefined; chunkResponse(undefined) throws in the report
OverallSummary(outcome) ==
  /\ hpc = "overall"
  /\ outcome = "undefined" => ~debugMode
  /\ summaryCalls' = summaryCalls + 1
  /\ hpc' = IF outcome = "undefined" /\ commandType = "report" THEN "caught"
            ELSE "results"
  /\ UNCHANGED <<llmParked, configVars, posts, infoRequests, historyRequests, found,
                 escaped, logged>>

\* the result message; the search handler answers its failure with a plain text
PostResults(ok) ==
  PostInTry("results", ResultVisibility(commandType), "results", ok,
            IF commandType = "search" THEN "simple" ELSE "caught")

\* the search handler's plain-text result after a refused result message
PostSimple(ok) == PostInTry("simple", "ephemeral", "results", ok, "caught")

\* the handler's catch block: the error message; only the search handler
\* wraps it in a try of its own
PostError(ok) ==
  /\ hpc = "caught"
  /\ Post("ephemeral", "error", ok)
  /\ hpc' = "returned"
  /\ logged' = (logged \/ (~ok /\ commandType = "search"))
  /\ escaped' = IF ~ok /\ commandType # "search" THEN "handler" ELSE escaped
  /\ UNCHANGED <<llmParked, configVars, infoRequests, historyRequests, summaryCalls,
                 found>>

NextCommand ==
  \/ HandleSlashCommand
  \/ \E ok \in BOOLEAN : PostAndReturn(ok)
  \/ \E ok \in BOOLEAN : ValidateChannelAccess(ok)
  \/ \E ok \in BOOLEAN : OpenModal(ok)
  \/ \E ok \in BOOLEAN : HandleHelpCommand(ok)
  \/ \E ok \in BOOLEAN : PostNeedTopic(ok)
  \/ \E ok \in BOOLEAN : SearchInfo(ok)
  \/ \E outcome \in {"fail", "more", "last"} : SearchPage(outcome)
  \/ \E ok \in BOOLEAN, n \in 0..MaxFound : SearchReturns(ok, n)
  \/ \E ok \in BOOLEAN : PostNotice(ok)
  \/ ThreadSummaries
  \/ \E outcome \in {"text", "threw", "undefined"} : OverallSummary(outcome)
  \/ \E ok \in BOOLEAN : PostResults(ok)
  \/ \E ok \in BOOLEAN : PostSimple(ok)
  \/ \E ok \in BOOLEAN : PostError(ok)

SpecCommand == InitCommand /\ [][NextCommand]_vars

\* every awaited promise settles, so the handler's next step is taken
SpecCommandLive == SpecCommand /\ WF_vars(NextCommand)

Texts(txt) == {x \in DOMAIN posts : posts[x].text = txt}
Delivered(txt) == \E x \in Texts(txt) : posts[x].ok

\* C25: when the search of a search, context or report command returns no
\* message, the handler ends without any summarization call, having posted
\* the 'no messages found' notice, and with no error message unless Slack
\* refused that notice.
C25_EmptyResultNoticed ==
  (found = 0) ~>
     (/\ hpc = "returned"
      /\ summaryCalls = 0
      /\ Texts("notice") # {}
      /\ Delivered("notice") => Texts("error") = {})

C25_Witness ==
  /\ hpc = "returned" /\ found = 0 /\ commandType = "report" /\ historyRequests = 2
  /\ posts = <<[vis |-> "ephemeral", text |-> "notice", ok |-> TRUE]>>

\* C26: handleSearchCommand, handleContextCommand and handleReportCommand
\* never let an exception escape, whatever fails, the error message included.
C26_HandlersNeverThrow ==
  commandType \in Handlers => escaped # "handler"

\* C27: a command in a channel that is not listed, while allowAllPublicChannels
\* is false, leads to no channel-history request and no AI request; its only
\* effect is one ephemeral refusal.
C27_UnlistedChannelRefused ==
  (~channelListed /\ ~allowAllPublicChannels) =>
     /\ historyRequests = 0 /\ infoRequests = 0 /\ summaryCalls = 0
     /\ Len(posts) <= 1
     /\ \A x \in DOMAIN posts : posts[x].vis = "ephemeral" /\ posts[x].text = "refusal"
     /\ hpc = "returned" => Len(posts) = 1

C27_Witness ==
  /\ ~channelListed /\ ~allowAllPublicChannels /\ commandType = "search" /\ hasTopic
  /\ hpc = "returned"
  /\ posts = <<[vis |-> "ephemeral", text |-> "refusal", ok |-> TRUE]>>

\* C28: with allowPrivateChannels = false, no command in a private channel
\* leads to a channel-history request.
C28_PrivateChannelNotRead ==
  (~allowPrivateChannels /\ channelPrivate) => historyRequests = 0

\* C29: every message of the report command is ephemeral, on success and on
\* every failure path; the context command posts its result publicly.
C29_ReportStaysPrivate ==
  /\ commandType = "report" => \A x \in DOMAIN posts : posts[x].vis = "ephemeral"
  /\ commandType = "context" =>
       \A x \in Texts("results") : posts[x].vis = "public"

C29_Witness ==
  /\ commandType = "report" /\ hpc = "returned" /\ summaryCalls = 2
  /\ posts = <<[vis |-> "ephemeral", text |-> "results", ok |-> FALSE],
               [vis |-> "ephemeral", text |-> "error", ok |-> TRUE]>>

(***************************************************************************)
(* The paging loop of searchMessages, with its awaits settling.            *)
(***************************************************************************)
\* every sleep and every conversations.history request of the loop settles
SpecSearchLive == SpecSearch /\ WF_vars(NextSearch)

\* C30: the paging loop requests each page at the cursor the previous page
\* returned (no message is fetched twice), requests a page only while the last
\* page returned a cursor and fewer than maxMessages messages are accumulated,
\* leaves the loop only when one of the two fails, and always ends.
C30_PagingFollowsCursorAndEnds ==
  /\ [](allMessages <= history)
  /\ [][(spc = "loop" /\ pages' = pages + 1) =>
          (hasMore /\ allMessages < maxMessages)]_vars
  /\ [][(spc = "loop" /\ spc' = "fetched") =>
          (~hasMore \/ allMessages >= maxMessages)]_vars
  /\ (spc = "loop") ~> (spc # "loop")

C30_Witness ==
  /\ spc = "fetched" /\ pages = 2 /\ hasMore /\ cursor # 0
  /\ allMessages >= maxMessages /\ allMessages < history

(***************************************************************************)
(* The permalink of a thread built by the aggregation, under SpecGroup.    *)
(***************************************************************************)
\* the permalink searchMessages attached to a message: the link of its own ts
PermalinkOf(m) == m.ts

\* threads[threadTs] = { messages: [], permalink: msg.permalink }: the
\* permalink of the message that created the entry, the first one pushed
ThreadPermalink(k) == PermalinkOf(messages[threadMsgs[k][1]])

\* C32: every thread built by the aggregation carries the permalink of its
\* root message, the message whose timestamp equals the thread key.
C32_ThreadCarriesRootPermalink ==
  Grouped => \A k \in DOMAIN threadMsgs : ThreadPermalink(k) = k

(***************************************************************************)
(* SpecExpand: the topic filter and the thread expansion of searchMessages *)
(* over the timestamps of a channel.  A message is [ts, thread_ts, hit,    *)
(* listed]: thread_ts is 0 without a thread, ts for a thread's root and    *)
(* the root's ts for a reply; hit says its text passes the topic filter;   *)
(* listed says conversations.history returns it (every message outside a   *)
(* thread and every root, and the replies also sent to the channel).       *)
(***************************************************************************)
ChannelMessages ==
  {m \in [ts : 1..MaxChannelTs, thread_ts : 0..MaxChannelTs, hit : BOOLEAN,
           listed : BOOLEAN] :
     /\ m.thread_ts <= m.ts
     /\ m.thread_ts \in {0, m.ts} => m.listed}

\* the thread roots of ch
RootsOf(ch) == {m.ts : m \in {a \in ch : a.thread_ts = a.ts}}

\* the messages with timestamp v a channel holding ch may have: a reply's
\* root is a message of the channel
MessagesAt(v, ch) ==
  {m \in ChannelMessages :
     m.ts = v /\ (m.thread_ts \in {0, v} \/ m.thread_ts \in RootsOf(ch))}

\* the channels with timestamps up to v, each timestamp used at most once
RECURSIVE ChannelsUpTo(_)
ChannelsUpTo(v) ==
  IF v = 0 THEN {{}}
  ELSE UNION {{ch} \cup {ch \cup {m} : m \in MessagesAt(v, ch)} : ch \in ChannelsUpTo(v - 1)}

Channels == ChannelsUpTo(MaxChannelTs)

\* the messages of S as a sequence, newest or oldest first
RECURSIVE NewestFirst(_)
NewestFirst(S) ==
  IF S = {} THEN <<>>
  ELSE LET m == CHOOSE a \in S : \A b \in S : b.ts <= a.ts
       IN <<m>> \o NewestFirst(S \ {m})

RECURSIVE OldestFirst(_)
OldestFirst(S) ==
  IF S = {} THEN <<>>
  ELSE LET m == CHOOSE a \in S : \A b \in S : a.ts <= b.ts
       IN <<m>> \o OldestFirst(S \ {m})

\* conversations.history: the listed messages, newest first
HistoryOf(ch) == NewestFirst({m \in ch : m.listed})

\* conversations.replies({ts: threadTs}): the root and its replies, oldest first
getThreadMessages(ch, threadTs) ==
  OldestFirst({m \in ch : m.ts = threadTs \/ m.thread_ts = threadTs})

\* searchTerms.every(term => text.includes(term))
PassesTopic(m) == m.hit

\* threadResults.flat()
RECURSIVE Flat(_)
Flat(seqs) == IF seqs = <<>> THEN <<>> ELSE seqs[1] \o Flat(Tail(seqs))

HasThread(m) == m.thread_ts # 0                        \* msg => msg.thread_ts

\* messages.filter(msg => msg.thread_ts): one request per matched message
ThreadRequests(msgs) == SelectSeq(msgs, HasThread)

TsOf(msgs) == [x \in DOMAIN msgs |-> msgs[x].ts]

InitExpand ==
  /\ ParkLimiter /\ ParkCallers /\ ParkLLM /\ ParkSearch /\ ParkGroup /\ ParkFilter /\ ParkChunk
  /\ ParkCommand /\ ParkTopics /\ ParkSlash
  /\ matched = 0 /\ threaded = 0 /\ threadMatched = 0
  /\ repliesInFlight = 0 /\ linksInFlight = 0 /\ replies = 0 /\ links = 0
  /\ includeThreads \in BOOLEAN
  /\ channel \in Channels
  /\ formattedMessages = <<>>
  /\ xpc = "fetched"

expandParked == <<limiterVars, callerVars, llmVars, searchVars, groupVars, filterVars,
                  cmdVars, topicVars, slashVars, chunkVars, matched, threaded, threadMatched,
                  repliesInFlight, linksInFlight, replies, links, includeThreads,
                  channel>>

\* const messages = allMessages.filter(...)
FilterByTopic ==
  /\ xpc = "fetched"
  /\ formattedMessages' = TsOf(SelectSeq(HistoryOf(channel), PassesTopic))
  /\ xpc' = IF includeThreads THEN "expanding" ELSE "linking"
  /\ UNCHANGED expandParked

\* the replies of every matched message with a thread_ts, filtered by the
\* topic and pushed after the matched messages
ExpandThreads ==
  /\ xpc = "expanding"
  /\ \E reqs \in {ThreadRequests(SelectSeq(HistoryOf(channel), PassesTopic))} :
       formattedMessages' =
         formattedMessages \o
         TsOf(SelectSeq(Flat([x \in DOMAIN reqs |->
                                getThreadMessages(channel, reqs[x].thread_ts)]),
                        PassesTopic))
  /\ xpc' = "linking"
  /\ UNCHANGED expandParked

\* every message gets its permalink and the list is returned
FormatMessages ==
  /\ xpc = "linking"
  /\ xpc' = "returned"
  /\ UNCHANGED <<expandParked, formattedMessages>>

NextExpand == FilterByTopic \/ ExpandThreads \/ FormatMessages
SpecExpand == InitExpand /\ [][NextExpand]_vars

\* C31: the sequence returned by searchMessages holds no two entries with the
\* same timestamp.
C31_NoTimestampTwice ==
  xpc = "returned" =>
    \A a, b \in DOMAIN formattedMessages :
      formattedMessages[a] = formattedMessages[b] => a = b

(***************************************************************************)
(* Upstream requests against the limiter's count, under Spec.              *)
(***************************************************************************)
\* C33: every upstream request, retries included, passes through the rate
\* limiter: before the window's reset the requests one call has sent never
\* exceed what requestCount records, nor maxRequestsPerMinute.
C33_EveryRequestCounted ==
  (requestResetTimeout /\ now < nextReset) =>
     (attempts <= requestCount /\ attempts <= maxRequestsPerMinute)

(***************************************************************************)
(* The end of a call's retry loop, under SpecDebug.                        *)
(***************************************************************************)
\* the operation that was entered has returned or thrown
CallEnded == pc \in {"done", "topicsDone"} \/ cpc \in {"built", "delivered"}

\* C34: every backoff delay is followed by a further upstream attempt, so a
\* call that ended has slept fewer delays than it made attempts; and a call
\* whose attempts all failed with retryable errors ended by raising an error,
\* not with an undefined result.
C34_DelayThenAttemptOrError ==
  (CallEnded /\ attempts > 0) =>
     /\ Len(delays) < attempts
     /\ allRetryable => lastError # "none"

(***************************************************************************)
(* SpecLimiterLife: the limiter with its reset timer firing and with       *)
(* destroy(), which clears the timer.                                      *)
(***************************************************************************)
\* destroy(): clearInterval(this.requestResetTimeout); the field becomes null
Destroy ==
  /\ requestResetTimeout
  /\ requestResetTimeout' = FALSE
  /\ intervals' = intervals - 1
  /\ nextReset' = 0
  /\ UNCHANGED <<requestCount, lastRequestTime, now, callerVars, llmVars, searchVars,
                 groupVars, filterVars, chunkVars, expandVars, slashVars, topicVars, fanVars,
                 cmdVars>>

NextLimiterLife == NextLimiter \/ Destroy

\* an interval timer that is due fires
SpecLimiterLife == InitLimiter /\ [][NextLimiterLife]_vars /\ WF_vars(ResetWindow)

\* C35: while the reset timer exists requestCount is set back to 0 at every
\* window boundary, the boundaries lie a fixed interval apart, the client
\* never has more than one reset timer, and a call that enters after a reset
\* is not rejected.
C35_WindowResetsOnSchedule ==
  /\ [](intervals <= 1 /\ (requestResetTimeout <=> intervals = 1))
  /\ [][ResetWindow => (/\ now = nextReset
                        /\ requestCount' = 0
                        /\ nextReset' = nextReset + ResetInterval)]_vars
  /\ (requestResetTimeout /\ now >= nextReset /\ requestCount > 0)
        ~> (requestCount = 0 \/ ~requestResetTimeout)
  /\ [][\A c \in Callers :
          (EnforceRateLimit(c) /\ requestCount = 0 /\ requestResetTimeout) =>
             callerPc'[c] # "rejected"]_vars

C35_Witness ==
  /\ callerPc[1] = "rejected" /\ callerPc[2] = "recorded"
  /\ requestCount = 1 /\ intervals = 1
  /\ nextReset = messageDelay + 2 * ResetInterval

(***************************************************************************)
(* SpecChunk: chunkResponse applied to every text over a small alphabet.   *)
(***************************************************************************)
ChunkChars == {"a", " ", ".", "?"}
Terminators == {".", "!", "?"}
ReportTexts == SeqsUpTo(ChunkChars, MaxReportLen)

\* text.match(/[^.!?]+[.!?]+/g) from position p on: a longest run of other
\* characters followed by a longest run of terminators
RECURSIVE MatchSentences(_, _)
MatchSentences(t, p) ==
  IF p > Len(t) THEN <<>>
  ELSE IF t[p] \in Terminators THEN MatchSentences(t, p + 1)
  ELSE LET e == FirstIdx(t, p, Terminators)
           after == {x \in e..Len(t) : t[x] \notin Terminators}
           f == IF after = {} THEN Len(t) ELSE Min(after) - 1
       IN IF e = 0 THEN <<>>
          ELSE <<SubSeq(t, p, f)>> \o MatchSentences(t, f + 1)

\* text.match(...) || [text]
SentencesOf(t) == IF MatchSentences(t, 1) = <<>> THEN <<t>> ELSE MatchSentences(t, 1)

RECURSIVE TrimSpaces(_)
TrimSpaces(str) ==
  IF str # <<>> /\ Head(str) = " " THEN TrimSpaces(Tail(str))
  ELSE IF str # <<>> /\ str[Len(str)] = " " THEN TrimSpaces(SubSeq(str, 1, Len(str) - 1))
  ELSE str

\* if (currentChunk) chunks.push(currentChunk.trim())
PushChunk(chunks, currentChunk) ==
  IF currentChunk # <<>> THEN Append(chunks, TrimSpaces(currentChunk)) ELSE chunks

\* for (const sentence of sentences) from position p on, then the last push
RECURSIVE ChunkLoop(_, _, _, _)
ChunkLoop(sentences, p, currentChunk, chunks) ==
  IF p > Len(sentences) THEN PushChunk(chunks, currentChunk)
  ELSE IF Len(currentChunk) + Len(sentences[p]) > maxChunkLength
    THEN ChunkLoop(sentences, p + 1, sentences[p], PushChunk(chunks, currentChunk))
    ELSE ChunkLoop(sentences, p + 1, currentChunk \o <<" ">> \o sentences[p], chunks)

chunkResponse(t) ==
  IF Len(t) <= maxChunkLength THEN <<t>>
  ELSE ChunkLoop(SentencesOf(t), 1, <<>>, <<>>)

InitChunk ==
  /\ ParkLimiter /\ ParkCallers /\ ParkLLM /\ ParkSearch /\ ParkGroup /\ ParkFilter
  /\ ParkCommand /\ ParkFan /\ ParkTopics /\ ParkSlash /\ ParkExpand
  /\ reportContent \in ReportTexts
  /\ reportChunks = <<>>
  /\ kpc = "ready"

\* const reportChunks = llmClient.chunkResponse(reportContent)
ChunkResponse ==
  /\ kpc = "ready"
  /\ reportChunks' = chunkResponse(reportContent)
  /\ kpc' = "chunked"
  /\ UNCHANGED <<limiterVars, callerVars, llmVars, searchVars, groupVars, filterVars,
                 cmdVars, fanVars, topicVars, slashVars, expandVars, reportContent>>

NextChunk == ChunkResponse
SpecChunk == InitChunk /\ [][NextChunk]_vars

\* C36: every chunk returned by chunkResponse has at most maxChunkLength
\* characters, for every input text.
C36_ChunksWithinLimit ==
  kpc = "chunked" => \A x \in DOMAIN reportChunks : Len(reportChunks[x]) <= maxChunkLength

WithoutSpaces(str) == SelectSeq(str, LAMBDA c : c # " ")

\* C37: chunkResponse loses no content: the chunks joined in order are the
\* input text, whitespace apart.
C37_ChunksKeepContent ==
  kpc = "chunked" => WithoutSpaces(Flat(reportChunks)) = WithoutSpaces(reportContent)

(***************************************************************************)
(* Replies of the search command, under SpecCommandLive.                   *)
(***************************************************************************)
\* the command went past the allowed-channel test and validateChannelAccess
PassedChecks ==
  /\ infoRequests >= 1 /\ hpc # "noAccess"
  /\ Texts("noAccess") = {} /\ Texts("refusal") = {}

DeliveredPosts == {x \in DOMAIN posts : posts[x].ok}

\* C38: a search command that passes the channel checks delivers at most one
\* reply on every path, and ends having delivered exactly one when no post
\* fails.
C38_SearchRepliesOnce ==
  /\ []((commandType = "search" /\ PassedChecks) => Cardinality(DeliveredPosts) <= 1)
  /\ (commandType = "search" /\ PassedChecks)
        ~> (/\ hpc = "returned"
            /\ DeliveredPosts = DOMAIN posts => Cardinality(DeliveredPosts) = 1)

C38_Witness ==
  /\ commandType = "search" /\ PassedChecks /\ hpc = "returned" /\ found = 1
  /\ posts = <<[vis |-> "ephemeral", text |-> "results", ok |-> FALSE],
               [vis |-> "ephemeral", text |-> "results", ok |-> TRUE]>>
====
